---- MODULE Spec2Model ----
(***************************************************************************)
(* Model of the template directive engine (TemplateEngine) of the          *)
(* ai-vibe-check-platform front end.                                       *)
(*                                                                         *)
(* A JavaScript string is a sequence of one-character strings.  The        *)
(* engine is regular-expression driven, so the regular expressions of the  *)
(* source are transcribed node by node and run by a backtracking matcher   *)
(* with the priorities of the ECMAScript matcher (greedy and lazy          *)
(* quantifiers, alternation order, lookahead, anchors, captures).          *)
(***************************************************************************)
EXTENDS Integers, Sequences, FiniteSets, TLC

(***************************************************************************)
(* Characters and character classes                                        *)
(***************************************************************************)
\* \s of the regular expressions, restricted to the characters bodies use
WhiteSpace == {" ", "\n", "\t"}

\* line terminators: the characters `.' does not match
LineTerminators == {"\n"}

Digits == {"0", "1", "2", "3", "4", "5", "6", "7", "8", "9"}

Letters ==
  {"a", "b", "c", "d", "e", "f", "g", "h", "i", "j", "k", "l", "m",
   "n", "o", "p", "q", "r", "s", "t", "u", "v", "w", "x", "y", "z",
   "A", "B", "C", "D", "E", "F", "G", "H", "I", "J", "K", "L", "M",
   "N", "O", "P", "Q", "R", "S", "T", "U", "V", "W", "X", "Y", "Z"}

\* \w of the regular expressions
WordChars == Letters \cup Digits \cup {"_"}

(***************************************************************************)
(* Regular-expression syntax.  An expression is a sequence of nodes:       *)
(*   Lit(cs)             the characters cs                                 *)
(*   One(x)              one character of the class x                      *)
(*   Rep(x, min, cap)    x+ (min = 1) or x* (min = 0) over a character     *)
(*                       class x, greedy, captured as group cap (0: none)  *)
(*   Lazy(x, min, cap)   the same, lazy: x+? or x*?                        *)
(*   Alt(xs, cap)        the alternatives xs, in order                     *)
(*   Star(e)             (?:e)* over an expression e, greedy               *)
(*   Look(e)             (?=e) and NegLook(e) (?!e)                        *)
(*   Bol, Eol            ^ and $ (no m flag anywhere in the engine)        *)
(***************************************************************************)
Lit(cs) == [op |-> "lit", cs |-> cs]
Cls(set) == [neg |-> FALSE, cs |-> set]
NCls(set) == [neg |-> TRUE, cs |-> set]
One(x) == [op |-> "one", x |-> x]
Rep(x, min, cap) == [op |-> "rep", x |-> x, min |-> min, lazy |-> FALSE, cap |-> cap]
Lazy(x, min, cap) == [op |-> "rep", x |-> x, min |-> min, lazy |-> TRUE, cap |-> cap]
Alt(xs, cap) == [op |-> "alt", xs |-> xs, cap |-> cap]
Opt(e) == Alt(<<e, <<>>>>, 0)
Star(e) == [op |-> "star", e |-> e]
Look(e) == [op |-> "look", neg |-> FALSE, e |-> e]
NegLook(e) == [op |-> "look", neg |-> TRUE, e |-> e]
Bol == [op |-> "bol"]
Eol == [op |-> "eol"]
\* $ under the m flag, and \b
EolM == [op |-> "eolm"]
WordBoundary == [op |-> "wb"]

\* [\s\S]
AnyChar == NCls({})
\* .
Dot == NCls(LineTerminators)
\* \s
Space == Cls(WhiteSpace)
\* \w
Word == Cls(WordChars)
\* \d
Digit == Cls(Digits)

InClass(ch, x) == (ch \in x.cs) # x.neg

\* the largest capture group number of any expression of the engine
NumGroups == 5

NoCaps == [n \in 1..NumGroups |-> <<0, 0>>]

NoMatch == [ok |-> FALSE, start |-> 0, end |-> 0, caps |-> NoCaps]

SetCap(c, n, from, to) == IF n = 0 THEN c ELSE [c EXCEPT ![n] = <<from, to>>]

Min(S) == CHOOSE x \in S : \A y \in S : x <= y

Range(f) == {f[x] : x \in DOMAIN f}

\* the first position from i on where s has no character of class x
RECURSIVE RunEnd(_, _, _)
RunEnd(s, i, x) ==
  IF i <= Len(s) /\ InClass(s[i], x) THEN RunEnd(s, i + 1, x) ELSE i

(***************************************************************************)
(* The backtracking matcher.  k is the continuation (the nodes still to    *)
(* match), i the position in s, c the captures so far.  The first way to   *)
(* succeed in priority order is the match.                                 *)
(***************************************************************************)
RECURSIVE Match(_, _, _, _)
RECURSIVE Repeat(_, _, _, _, _, _, _)

\* a repetition n that started at position i and may end at any position
\* of lo..hi: the continuation is tried after the shortest run first when
\* the repetition is lazy, after the longest first when it is greedy
Repeat(s, k, n, i, lo, hi, c) ==
  IF lo > hi THEN NoMatch
  ELSE LET j == IF n.lazy THEN lo ELSE hi
           a == Match(s, k, j, SetCap(c, n.cap, i, j))
       IN IF a.ok THEN a
          ELSE IF n.lazy THEN Repeat(s, k, n, i, lo + 1, hi, c)
          ELSE Repeat(s, k, n, i, lo, hi - 1, c)

Match(s, k, i, c) ==
  IF k = <<>> THEN [ok |-> TRUE, start |-> 0, end |-> i, caps |-> c]
  ELSE
    LET n == Head(k)
        r == Tail(k)
    IN CASE n.op = "lit" ->
              IF /\ i + Len(n.cs) - 1 <= Len(s)
                 /\ \A j \in 1..Len(n.cs) : s[i + j - 1] = n.cs[j]
              THEN Match(s, r, i + Len(n.cs), c)
              ELSE NoMatch
         [] n.op = "one" ->
              IF i <= Len(s) /\ InClass(s[i], n.x)
              THEN Match(s, r, i + 1, c)
              ELSE NoMatch
         [] n.op = "rep" -> Repeat(s, r, n, i, i + n.min, RunEnd(s, i, n.x), c)
         [] n.op = "alt" ->
              IF n.xs = <<>> THEN NoMatch
              ELSE LET a == Match(s, Head(n.xs) \o <<[op |-> "close", n |-> n.cap, from |-> i]>> \o r, i, c)
                   IN IF a.ok THEN a
                      ELSE Match(s, <<Alt(Tail(n.xs), n.cap)>> \o r, i, c)
         [] n.op = "close" -> Match(s, r, i, SetCap(c, n.n, n.from, i))
         [] n.op = "star" ->
              LET a == Match(s, n.e \o <<[op |-> "progress", from |-> i], n>> \o r, i, c)
              IN IF a.ok THEN a ELSE Match(s, r, i, c)
         [] n.op = "progress" ->
              IF i > n.from THEN Match(s, r, i, c) ELSE NoMatch
         [] n.op = "look" ->
              LET a == Match(s, n.e, i, c)
              IN IF a.ok # n.neg
                 THEN Match(s, r, i, IF n.neg THEN c ELSE a.caps)
                 ELSE NoMatch
         [] n.op = "bol" -> IF i = 1 THEN Match(s, r, i, c) ELSE NoMatch
         [] n.op = "eol" -> IF i = Len(s) + 1 THEN Match(s, r, i, c) ELSE NoMatch
         [] n.op = "eolm" ->
              IF i = Len(s) + 1 \/ s[i] \in LineTerminators
              THEN Match(s, r, i, c) ELSE NoMatch
         [] n.op = "wb" ->
              IF (i > 1 /\ s[i - 1] \in WordChars) # (i <= Len(s) /\ s[i] \in WordChars)
              THEN Match(s, r, i, c) ELSE NoMatch

\* the match of expression re that starts at position from, if any
MatchAt(re, s, from) == [Match(s, re, from, NoCaps) EXCEPT !.start = from]

\* whether a match of re can start with the character at position p: an
\* expression that begins with a literal starts with its first character
CanStartAt(re, s, p) ==
  re # <<>> /\ Head(re).op = "lit" /\ Head(re).cs # <<>>
    => p <= Len(s) /\ s[p] = Head(re).cs[1]

\* the positions from `from' on where a match of re can start
Starts(re, s, from) == {p \in from..(Len(s) + 1) : CanStartAt(re, s, p)}

\* the leftmost of a set of matches, NoMatch when there is none
Leftmost(found) ==
  IF found = {} THEN NoMatch
  ELSE CHOOSE m \in found : \A o \in found : m.start <= o.start

\* RegExp.prototype.exec / String.prototype.match without the g flag:
\* the match at the leftmost position, searching from position from
Exec(re, s, from) ==
  Leftmost({m \in {MatchAt(re, s, p) : p \in Starts(re, s, from)} : m.ok})

\* RegExp.prototype.test
Test(re, s) == Exec(re, s, 1).ok

\* the successive matches String.prototype.replace visits with a g flag:
\* MatchAll searches from a position, MatchesAfter goes on after match m
RECURSIVE MatchAll(_, _, _)
RECURSIVE MatchesAfter(_, _, _)
MatchesAfter(re, s, m) ==
  IF ~m.ok THEN <<>>
  ELSE <<m>> \o MatchAll(re, s, IF m.end = m.start THEN m.end + 1 ELSE m.end)

MatchAll(re, s, from) == MatchesAfter(re, s, Exec(re, s, from))

\* the text of the whole match and of capture group n ("" when unset)
Whole(s, m) == SubSeq(s, m.start, m.end - 1)
Group(s, m, n) == SubSeq(s, m.caps[n][1], m.caps[n][2] - 1)

\* String.prototype.replace(re, callback): the result, given the matches
\* and the text the callback returned for each
RECURSIVE Splice(_, _, _, _)
Splice(s, ms, rs, from) ==
  IF ms = <<>> THEN SubSeq(s, from, Len(s))
  ELSE SubSeq(s, from, Head(ms).start - 1) \o Head(rs)
         \o Splice(s, Tail(ms), Tail(rs), Head(ms).end)

\* String.prototype.trim
RECURSIVE TrimStart(_)
TrimStart(s) ==
  IF s # <<>> /\ Head(s) \in WhiteSpace THEN TrimStart(Tail(s)) ELSE s

RECURSIVE TrimEnd(_)
TrimEnd(s) ==
  IF s # <<>> /\ s[Len(s)] \in WhiteSpace
  THEN TrimEnd(SubSeq(s, 1, Len(s) - 1)) ELSE s

Trim(s) == TrimEnd(TrimStart(s))

StartsWith(s, p) ==
  Len(p) <= Len(s) /\ \A j \in 1..Len(p) : s[j] = p[j]

EndsWith(s, p) ==
  Len(p) <= Len(s) /\ \A j \in 1..Len(p) : s[Len(s) - Len(p) + j] = p[j]

\* String.prototype.includes
Includes(s, p) ==
  \E i \in 1..(Len(s) - Len(p) + 1) : \A j \in 1..Len(p) : s[i + j - 1] = p[j]

(***************************************************************************)
(* JavaScript values.  A number is the decimal v / 10^e (the literals and  *)
(* the values the engine meets are decimals), NaN is apart.                *)
(***************************************************************************)
Undefined == [t |-> "undefined"]
Null == [t |-> "null"]
NaN == [t |-> "nan"]
Bool(b) == [t |-> "boolean", b |-> b]
Str(cs) == [t |-> "string", v |-> cs]
Arr(xs) == [t |-> "array", items |-> xs]
Obj(f) == [t |-> "object", props |-> f]

\* the outcome of an evaluation that threw
Throw(e) == [t |-> "throw", v |-> e]
IsThrow(x) == x.t = "throw"

RECURSIVE Pow10(_)
Pow10(e) == IF e = 0 THEN 1 ELSE 10 * Pow10(e - 1)

RECURSIVE Num2(_, _)
Num2(v, e) ==
  IF e > 0 /\ v % 10 = 0 THEN Num2(v \div 10, e - 1)
  ELSE [t |-> "number", v |-> v, e |-> e]

Num(n) == Num2(n, 0)

IsNullish(x) == x.t \in {"undefined", "null"}

\* typeof
TypeOf(x) ==
  CASE x.t = "undefined" -> "undefined"
    [] x.t = "boolean" -> "boolean"
    [] x.t \in {"number", "nan"} -> "number"
    [] x.t = "string" -> "string"
    [] OTHER -> "object"

NumEq(a, b) == a.v * Pow10(b.e) = b.v * Pow10(a.e)
NumLt(a, b) == a.v * Pow10(b.e) < b.v * Pow10(a.e)

DigitValue(ch) ==
  CASE ch = "0" -> 0 [] ch = "1" -> 1 [] ch = "2" -> 2 [] ch = "3" -> 3
    [] ch = "4" -> 4 [] ch = "5" -> 5 [] ch = "6" -> 6 [] ch = "7" -> 7
    [] ch = "8" -> 8 [] ch = "9" -> 9

DigitChar(d) == <<"0", "1", "2", "3", "4", "5", "6", "7", "8", "9">>[d + 1]

RECURSIVE ParseDigits(_)
ParseDigits(cs) ==
  IF cs = <<>> THEN 0
  ELSE 10 * ParseDigits(SubSeq(cs, 1, Len(cs) - 1)) + DigitValue(cs[Len(cs)])

RECURSIVE NatToString(_)
NatToString(n) ==
  IF n < 10 THEN <<DigitChar(n)>>
  ELSE NatToString(n \div 10) \o <<DigitChar(n % 10)>>

RECURSIVE PadZeros(_, _)
PadZeros(cs, w) == IF Len(cs) >= w THEN cs ELSE PadZeros(<<"0">> \o cs, w)

\* Number.prototype.toString of a decimal
NumToString(x) ==
  LET a == IF x.v < 0 THEN 0 - x.v ELSE x.v
      sign == IF x.v < 0 THEN <<"-">> ELSE <<>>
  IN IF x.e = 0 THEN sign \o NatToString(a)
     ELSE sign \o NatToString(a \div Pow10(x.e)) \o <<".">>
            \o PadZeros(NatToString(a % Pow10(x.e)), x.e)

\* the position of the first occurrence of character ch in cs, 0 if none
RECURSIVE IndexOfChar(_, _, _)
IndexOfChar(cs, ch, from) ==
  IF from > Len(cs) THEN 0
  ELSE IF cs[from] = ch THEN from ELSE IndexOfChar(cs, ch, from + 1)

\* /^-?\d+(\.\d+)?$/
NumberLiteralPattern ==
  <<Bol, Opt(<<Lit(<<"-">>)>>), Rep(Digit, 1, 0),
    Opt(<<Lit(<<".">>), Rep(Digit, 1, 0)>>), Eol>>

\* the decimal an unsigned literal denotes, its "." at position dot (0 when
\* it has none)
DecimalAt(body, dot) ==
  IF dot = 0 THEN Num(ParseDigits(body))
  ELSE Num2(ParseDigits(SubSeq(body, 1, dot - 1) \o SubSeq(body, dot + 1, Len(body))),
            Len(body) - dot)

Unsigned(body) == DecimalAt(body, IndexOfChar(body, ".", 1))

Negated(x) == [x EXCEPT !.v = 0 - x.v]

\* the decimal a literal with an optional sign denotes
SignedDecimal(cs) ==
  IF cs[1] = "-" THEN Negated(Unsigned(Tail(cs)))
  ELSE IF cs[1] = "+" THEN Unsigned(Tail(cs))
  ELSE Unsigned(cs)

\* parseFloat of a string that matches NumberLiteralPattern
ParseFloat(cs) == SignedDecimal(cs)

\* String.prototype.split on a one-character separator
RECURSIVE SplitChar(_, _)
SplitChar(cs, ch) ==
  LET at == IndexOfChar(cs, ch, 1)
  IN IF at = 0 THEN <<cs>>
     ELSE <<SubSeq(cs, 1, at - 1)>> \o SplitChar(SubSeq(cs, at + 1, Len(cs)), ch)

\* Array.prototype.join(",") over texts
RECURSIVE JoinComma(_)
JoinComma(ts) ==
  IF ts = <<>> THEN <<>>
  ELSE IF Len(ts) = 1 THEN ts[1]
  ELSE ts[1] \o <<",">> \o JoinComma(Tail(ts))

\* String(value)
RECURSIVE JsString(_)
JsString(x) ==
  CASE x.t = "undefined" -> <<"u", "n", "d", "e", "f", "i", "n", "e", "d">>
    [] x.t = "null" -> <<"n", "u", "l", "l">>
    [] x.t = "nan" -> <<"N", "a", "N">>
    [] x.t = "boolean" ->
         IF x.b THEN <<"t", "r", "u", "e">> ELSE <<"f", "a", "l", "s", "e">>
    [] x.t = "number" -> NumToString(x)
    [] x.t = "string" -> x.v
    [] x.t = "array" ->
         JoinComma([j \in 1..Len(x.items) |->
                      IF IsNullish(x.items[j]) THEN <<>> ELSE JsString(x.items[j])])
    [] x.t = "object" ->
         <<"[", "o", "b", "j", "e", "c", "t", " ", "O", "b", "j", "e", "c", "t", "]">>

\* an array index in canonical form: "0", or digits without a leading zero
IsIndexKey(key) ==
  /\ key # <<>>
  /\ \A j \in 1..Len(key) : key[j] \in Digits
  /\ (Len(key) > 1 => key[1] # "0")

\* `key in value` for an object or an array (own properties)
HasProp(x, key) ==
  CASE x.t = "object" -> key \in DOMAIN x.props
    [] x.t = "array" ->
         \/ key = <<"l", "e", "n", "g", "t", "h">>
         \/ IsIndexKey(key) /\ ParseDigits(key) < Len(x.items)
    [] OTHER -> FALSE

\* value[key] for an object or an array (own properties)
GetProp(x, key) ==
  CASE x.t = "object" -> IF key \in DOMAIN x.props THEN x.props[key] ELSE Undefined
    [] x.t = "array" ->
         IF key = <<"l", "e", "n", "g", "t", "h">> THEN Num(Len(x.items))
         ELSE IF IsIndexKey(key) /\ ParseDigits(key) < Len(x.items)
              THEN x.items[ParseDigits(key) + 1]
              ELSE Undefined
    [] OTHER -> Undefined

\* the truthiness JavaScript itself gives a value (`value && ...`)
JsTruthy(x) ==
  CASE x.t \in {"undefined", "null", "nan"} -> FALSE
    [] x.t = "boolean" -> x.b
    [] x.t = "number" -> x.v # 0
    [] x.t = "string" -> x.v # <<>>
    [] OTHER -> TRUE

(***************************************************************************)
(* JavaScript comparison                                                   *)
(***************************************************************************)
\* the characters in code-unit order (tab, newline, then the printable ASCII
\* characters but the grave accent)
CodeOrder ==
  <<"\t", "\n", " ", "!", "\"", "#", "$", "%", "&", "'", "(", ")", "*", "+", ",", "-", ".", "/", "0", "1">> \o
  <<"2", "3", "4", "5", "6", "7", "8", "9", ":", ";", "<", "=", ">", "?", "@", "A", "B", "C", "D", "E">> \o
  <<"F", "G", "H", "I", "J", "K", "L", "M", "N", "O", "P", "Q", "R", "S", "T", "U", "V", "W", "X", "Y">> \o
  <<"Z", "[", "\\", "]", "^", "_", "a", "b", "c", "d", "e", "f", "g", "h", "i", "j", "k", "l", "m">> \o
  <<"n", "o", "p", "q", "r", "s", "t", "u", "v", "w", "x", "y", "z", "{", "|", "}", "~">>

CharCode(ch) == IndexOfChar(CodeOrder, ch, 1)

\* the order of two strings by code units: "lt", "eq" or "gt"
RECURSIVE StrOrder(_, _)
StrOrder(a, b) ==
  IF a = <<>> THEN (IF b = <<>> THEN "eq" ELSE "lt")
  ELSE IF b = <<>> THEN "gt"
  ELSE IF CharCode(Head(a)) < CharCode(Head(b)) THEN "lt"
  ELSE IF CharCode(Head(a)) > CharCode(Head(b)) THEN "gt"
  ELSE StrOrder(Tail(a), Tail(b))

\* the unsigned decimal forms of StringToNumber: \d+(\.\d*)?|\.\d+
IsUnsignedDecimal(body) ==
  /\ \A j \in 1..Len(body) : body[j] \in Digits \cup {"."}
  /\ Cardinality({j \in 1..Len(body) : body[j] = "."}) <= 1
  /\ \E j \in 1..Len(body) : body[j] \in Digits

\* ToNumber of a string without white space around it (decimal forms; any
\* other text is NaN)
TrimmedToNumber(t) ==
  IF t = <<>> THEN Num(0)
  ELSE IF IsUnsignedDecimal(IF t[1] \in {"+", "-"} THEN Tail(t) ELSE t)
  THEN SignedDecimal(t)
  ELSE NaN

\* ToNumber of a string
StringToNumber(cs) == TrimmedToNumber(Trim(cs))

\* ToPrimitive: an array or an object becomes its string
ToPrimitive(x) == IF x.t \in {"array", "object"} THEN Str(JsString(x)) ELSE x

\* ToNumber of a primitive value
PrimitiveToNumber(p) ==
  CASE p.t = "undefined" -> NaN
    [] p.t = "null" -> Num(0)
    [] p.t = "boolean" -> IF p.b THEN Num(1) ELSE Num(0)
    [] p.t = "string" -> StringToNumber(p.v)
    [] OTHER -> p

\* ToNumber
ToNumber(x) == PrimitiveToNumber(ToPrimitive(x))

\* a === b
StrictEq(a, b) ==
  /\ a.t = b.t
  /\ a.t # "nan"
  /\ CASE a.t = "number" -> NumEq(a, b)
       [] a.t \in {"undefined", "null"} -> TRUE
       [] OTHER -> a = b

\* the order of two numbers: "lt", "eq", "gt", or "un" when one is NaN
NumberOrder(na, nb) ==
  IF na.t = "nan" \/ nb.t = "nan" THEN "un"
  ELSE IF NumLt(na, nb) THEN "lt"
  ELSE IF NumEq(na, nb) THEN "eq"
  ELSE "gt"

\* the order of two primitive values: two strings by code units, any
\* other pair as numbers
PrimitiveOrder(pa, pb) ==
  IF pa.t = "string" /\ pb.t = "string" THEN StrOrder(pa.v, pb.v)
  ELSE NumberOrder(PrimitiveToNumber(pa), PrimitiveToNumber(pb))

\* the abstract relational comparison: "lt", "eq", "gt", or "un" (undefined)
RelOrder(a, b) == PrimitiveOrder(ToPrimitive(a), ToPrimitive(b))

\* a == b for two primitive values of different types
PrimitiveLooseEq(pa, pb) ==
  IF pa.t = "string" /\ pb.t = "string" THEN pa.v = pb.v
  ELSE NumberOrder(PrimitiveToNumber(pa), PrimitiveToNumber(pb)) = "eq"

\* a == b
LooseEq(a, b) ==
  IF TypeOf(a) = TypeOf(b) /\ (a.t = "null") = (b.t = "null")
       /\ (a.t \in {"array", "object"}) = (b.t \in {"array", "object"})
  THEN StrictEq(a, b)
  ELSE IF IsNullish(a) \/ IsNullish(b) THEN IsNullish(a) /\ IsNullish(b)
  ELSE PrimitiveLooseEq(ToPrimitive(a), ToPrimitive(b))

\* whether an order satisfies a relational operator; "un" satisfies none
OrderSatisfies(operator, order) ==
  CASE operator = <<">", "=">> -> order \in {"gt", "eq"}
    [] operator = <<"<", "=">> -> order \in {"lt", "eq"}
    [] operator = <<">">> -> order = "gt"
    [] operator = <<"<">> -> order = "lt"

\* a <operator> b for the comparison operators of JavaScript
JsCompare(operator, a, b) ==
  CASE operator \in {<<"=", "=", "=">>, <<"!", "=", "=">>} ->
         StrictEq(a, b) = (operator = <<"=", "=", "=">>)
    [] operator \in {<<"=", "=">>, <<"!", "=">>} ->
         LooseEq(a, b) = (operator = <<"=", "=">>)
    [] OTHER -> OrderSatisfies(operator, RelOrder(a, b))

(***************************************************************************)
(* TemplateEngine: expressions and conditions                              *)
(***************************************************************************)
\* /^(\w+)\[(.+)\]$/
arrayPattern ==
  <<Bol, Rep(Word, 1, 1), Lit(<<"[">>), Rep(Dot, 1, 2), Lit(<<"]">>), Eol>>

\* the property walk of evaluateExpression over a dotted path
RECURSIVE WalkPath(_, _)
WalkPath(value, parts) ==
  IF parts = <<>> THEN value
  ELSE IF JsTruthy(value) /\ TypeOf(value) = "object" /\ HasProp(value, Head(parts))
       THEN WalkPath(GetProp(value, Head(parts)), Tail(parts))
       ELSE Undefined

\* array[index] of evaluateExpression: reading a property of null throws
IndexInto(array, index) ==
  IF IsThrow(index) THEN index
  ELSE IF array.t = "array" \/ TypeOf(array) = "object"
  THEN IF array.t = "null" THEN Throw(<<"T", "y", "p", "e", "E", "r", "r", "o", "r">>)
       ELSE GetProp(array, JsString(index))
  ELSE Undefined

\* evaluateExpression: a value, or Throw when the evaluation throws;
\* ArrayAccess is its end, from expression.match(arrayPattern) on
RECURSIVE evaluateExpression(_, _)
RECURSIVE ArrayAccess(_, _, _)
ArrayAccess(expression, arrayMatch, variables) ==
  IF arrayMatch.ok
  THEN IndexInto(GetProp(variables, Group(expression, arrayMatch, 1)),
                 evaluateExpression(Group(expression, arrayMatch, 2), variables))
  ELSE GetProp(variables, expression)

evaluateExpression(expression, variables) ==
  IF \/ StartsWith(expression, <<"\"">>) /\ EndsWith(expression, <<"\"">>)
     \/ StartsWith(expression, <<"'">>) /\ EndsWith(expression, <<"'">>)
  THEN Str(SubSeq(expression, 2, Len(expression) - 1))
  ELSE IF Test(NumberLiteralPattern, expression) THEN ParseFloat(expression)
  ELSE IF expression = <<"t", "r", "u", "e">> THEN Bool(TRUE)
  ELSE IF expression = <<"f", "a", "l", "s", "e">> THEN Bool(FALSE)
  ELSE IF expression = <<"n", "u", "l", "l">> THEN Null
  ELSE IF expression = <<"u", "n", "d", "e", "f", "i", "n", "e", "d">> THEN Undefined
  ELSE IF Includes(expression, <<".">>)
  THEN WalkPath(variables, SplitChar(expression, "."))
  ELSE ArrayAccess(expression, Exec(arrayPattern, expression, 1), variables)

\* parseValue
parseValue(value) ==
  IF value.t = "string"
  THEN IF Test(NumberLiteralPattern, value.v) THEN ParseFloat(value.v)
       ELSE IF value.v = <<"t", "r", "u", "e">> THEN Bool(TRUE)
       ELSE IF value.v = <<"f", "a", "l", "s", "e">> THEN Bool(FALSE)
       ELSE value
  ELSE value

\* isTruthy with Boolean(value) for every type
isTruthy_BooleanCast(value) == JsTruthy(value)

\* isTruthy
isTruthy(value) ==
  IF value.t \in {"null", "undefined"} THEN FALSE
  ELSE IF value.t = "boolean" THEN value.b
  ELSE IF value.t = "number" THEN value.v # 0
  ELSE IF value.t = "nan" THEN TRUE
  ELSE IF value.t = "string" THEN Len(value.v) > 0
  ELSE IF value.t = "array" THEN Len(value.items) > 0
  ELSE Cardinality(DOMAIN value.props) > 0

\* /^(\w+)\s+(.+?)\s+(.+)$/
helperPattern ==
  <<Bol, Rep(Word, 1, 1), Rep(Space, 1, 0), Lazy(Dot, 1, 2),
    Rep(Space, 1, 0), Rep(Dot, 1, 3), Eol>>

\* /[<>=!&|()]/
operatorCharPattern == <<One(Cls({"<", ">", "=", "!", "&", "|", "(", ")"}))>>

\* /^(.+?)\s*(===|!==|==|!=|>=|<=|>|<)\s*(.+)$/
comparisonPattern ==
  <<Bol, Lazy(Dot, 1, 1), Rep(Space, 0, 0),
    Alt(<<<<Lit(<<"=", "=", "=">>)>>, <<Lit(<<"!", "=", "=">>)>>,
          <<Lit(<<"=", "=">>)>>, <<Lit(<<"!", "=">>)>>,
          <<Lit(<<">", "=">>)>>, <<Lit(<<"<", "=">>)>>,
          <<Lit(<<">">>)>>, <<Lit(<<"<">>)>>>>, 2),
    Rep(Space, 0, 0), Rep(Dot, 1, 3), Eol>>

\* String.prototype.split on a separator of one or more characters:
\* SplitAt cuts at the occurrence at position at (0 when there is none)
RECURSIVE FindText(_, _, _)
FindText(cs, sep, from) ==
  IF from + Len(sep) - 1 > Len(cs) THEN 0
  ELSE IF SubSeq(cs, from, from + Len(sep) - 1) = sep THEN from
  ELSE FindText(cs, sep, from + 1)

RECURSIVE Split(_, _)
RECURSIVE SplitAt(_, _, _)
SplitAt(cs, sep, at) ==
  IF at = 0 THEN <<cs>>
  ELSE <<SubSeq(cs, 1, at - 1)>> \o Split(SubSeq(cs, at + Len(sep), Len(cs)), sep)

Split(cs, sep) == SplitAt(cs, sep, FindText(cs, sep, 1))

HelperNames ==
  {<<"e", "q">>, <<"n", "e">>, <<"g", "t">>, <<"l", "t">>, <<"g", "t", "e">>, <<"l", "t", "e">>}

\* the operator each case of the switch over the helper name applies
HelperOperator(helper) ==
  CASE helper = <<"e", "q">> -> <<"=", "=", "=">>
    [] helper = <<"n", "e">> -> <<"!", "=", "=">>
    [] helper = <<"g", "t">> -> <<">">>
    [] helper = <<"l", "t">> -> <<"<">>
    [] helper = <<"g", "t", "e">> -> <<">", "=">>
    [] helper = <<"l", "t", "e">> -> <<"<", "=">>

\* A block of evaluateCondition either returns a boolean, <<b>> here, or
\* falls through to the next block, <<>> here.

\* the switch over the helper name; a throw of evaluateExpression is
\* caught at the end of evaluateCondition, which then returns false
HelperSwitch(helper, leftValue, rightValue) ==
  IF IsThrow(leftValue) \/ IsThrow(rightValue) THEN <<FALSE>>
  ELSE IF helper \in HelperNames
  THEN <<JsCompare(HelperOperator(helper), leftValue, parseValue(rightValue))>>
  ELSE <<>>

\* the switch over the comparison operator
ComparisonSwitch(operator, leftValue, rightValue) ==
  IF IsThrow(leftValue) \/ IsThrow(rightValue) THEN <<FALSE>>
  ELSE <<JsCompare(operator, leftValue, rightValue)>>

\* the same with a condition that threw counted as true
TruthyValue_ThrowTrue(value) == IsThrow(value) \/ isTruthy(value)

\* this.isTruthy(this.evaluateExpression(..)), false when it threw
TruthyValue(value) == ~IsThrow(value) /\ isTruthy(value)

RECURSIVE evaluateCondition(_, _)

\* the helper block, given cleanCondition.match(helperPattern)
HelperBlock(cleanCondition, helperMatch, variables) ==
  IF helperMatch.ok
  THEN HelperSwitch(
         Group(cleanCondition, helperMatch, 1),
         evaluateExpression(Trim(Group(cleanCondition, helperMatch, 2)), variables),
         evaluateExpression(Trim(Group(cleanCondition, helperMatch, 3)), variables))
  ELSE <<>>

\* the comparison block, given cleanCondition.match(comparisonPattern)
ComparisonBlock(cleanCondition, comparisonMatch, variables) ==
  IF comparisonMatch.ok
  THEN ComparisonSwitch(
         Group(cleanCondition, comparisonMatch, 2),
         evaluateExpression(Trim(Group(cleanCondition, comparisonMatch, 1)), variables),
         evaluateExpression(Trim(Group(cleanCondition, comparisonMatch, 3)), variables))
  ELSE <<>>

\* the logical blocks with || looked for before &&
LogicalBlocks_OrFirst(cleanCondition, variables) ==
  IF Includes(cleanCondition, <<"|", "|">>)
  THEN <<\E part \in Range(Split(cleanCondition, <<"|", "|">>)) :
            evaluateCondition(Trim(part), variables)>>
  ELSE IF Includes(cleanCondition, <<"&", "&">>)
  THEN <<\A part \in Range(Split(cleanCondition, <<"&", "&">>)) :
            evaluateCondition(Trim(part), variables)>>
  ELSE IF StartsWith(cleanCondition, <<"!">>)
  THEN <<~evaluateCondition(Trim(Tail(cleanCondition)), variables)>>
  ELSE <<>>

\* the blocks for &&, || and !, given the comparison block fell through
LogicalBlocks(cleanCondition, variables) ==
  IF Includes(cleanCondition, <<"&", "&">>)
  THEN <<\A part \in Range(Split(cleanCondition, <<"&", "&">>)) :
            evaluateCondition(Trim(part), variables)>>
  ELSE IF Includes(cleanCondition, <<"|", "|">>)
  THEN <<\E part \in Range(Split(cleanCondition, <<"|", "|">>)) :
            evaluateCondition(Trim(part), variables)>>
  ELSE IF StartsWith(cleanCondition, <<"!">>)
  THEN <<~evaluateCondition(Trim(Tail(cleanCondition)), variables)>>
  ELSE <<>>

\* a block's outcome, or what the next block gives when it fell through
OrElse(outcome, next) == IF outcome # <<>> THEN outcome ELSE next

\* the blocks after the helper block: a condition without operator
\* characters falls through to the last line at once
OperatorBlocks(cleanCondition, variables) ==
  IF ~Test(operatorCharPattern, cleanCondition) THEN <<>>
  ELSE OrElse(ComparisonBlock(cleanCondition,
                              Exec(comparisonPattern, cleanCondition, 1), variables),
              LogicalBlocks(cleanCondition, variables))

\* evaluateCondition once the outer parentheses are off
CleanConditionValue(cleanCondition, variables) ==
  OrElse(OrElse(HelperBlock(cleanCondition, Exec(helperPattern, cleanCondition, 1),
                            variables),
                OperatorBlocks(cleanCondition, variables)),
         <<TruthyValue(evaluateExpression(cleanCondition, variables))>>)[1]

\* condition.trim() without its outer parentheses
CleanCondition(trimmed) ==
  IF StartsWith(trimmed, <<"(">>) /\ EndsWith(trimmed, <<")">>)
  THEN Trim(SubSeq(trimmed, 2, Len(trimmed) - 1))
  ELSE trimmed

\* evaluateCondition; an evaluation that throws is caught and gives false
evaluateCondition(condition, variables) ==
  CleanConditionValue(CleanCondition(Trim(condition)), variables)

(***************************************************************************)
(* TemplateEngine: directive blocks                                        *)
(***************************************************************************)
\* \{\{#if\s+([^}]+)\}\} with the condition in capture group n
IfHeader(n) ==
  <<Lit(<<"{", "{", "#", "i", "f">>), Rep(Space, 1, 0), Rep(NCls({"}"}), 1, n), Lit(<<"}", "}">>)>>

\* \{\{else if\s+([^}]+)\}\} with the condition in capture group n
ElseIfHeader(n) ==
  <<Lit(<<"{", "{", "e", "l", "s", "e", " ", "i", "f">>), Rep(Space, 1, 0),
    Rep(NCls({"}"}), 1, n), Lit(<<"}", "}">>)>>

ElseTag == <<"{", "{", "e", "l", "s", "e", "}", "}">>
EndIfTag == <<"{", "{", "/", "i", "f", "}", "}">>

\* /\{\{#if\s+([^}]+)\}\}([\s\S]*?)(?:\{\{else if\s+([^}]+)\}\}([\s\S]*?))*
\*  (?:\{\{else\}\}([\s\S]*?))?\{\{\/if\}\}/g
ifElseIfPattern ==
  IfHeader(1) \o
  <<Lazy(AnyChar, 0, 2),
    Star(ElseIfHeader(3) \o <<Lazy(AnyChar, 0, 4)>>),
    Opt(<<Lit(ElseTag), Lazy(AnyChar, 0, 5)>>),
    Lit(EndIfTag)>>

\* /\{\{#if\s+([^}]+)\}\}([\s\S]*?)\{\{#else\}\}([\s\S]*?)\{\{\/if\}\}/g
ifElsePattern ==
  IfHeader(1) \o
  <<Lazy(AnyChar, 0, 2), Lit(<<"{", "{", "#", "e", "l", "s", "e", "}", "}">>), Lazy(AnyChar, 0, 3), Lit(EndIfTag)>>

\* /\{\{#if\s+([^}]+)\}\}([\s\S]*?)\{\{\/if\}\}/g
ifPattern == IfHeader(1) \o <<Lazy(AnyChar, 0, 2), Lit(EndIfTag)>>

\* /\{\{#unless\s+([^}]+)\}\}([\s\S]*?)\{\{\/unless\}\}/g
unlessPattern ==
  <<Lit(<<"{", "{", "#", "u", "n", "l", "e", "s", "s">>), Rep(Space, 1, 0), Rep(NCls({"}"}), 1, 1), Lit(<<"}", "}">>),
    Lazy(AnyChar, 0, 2), Lit(<<"{", "{", "/", "u", "n", "l", "e", "s", "s", "}", "}">>)>>

\* (?=\{\{else|$)
BeforeElseOrEnd == Look(<<Alt(<<<<Lit(<<"{", "{", "e", "l", "s", "e">>)>>, <<Eol>>>>, 0)>>)

\* /^\{\{#if\s+([^}]+)\}\}([\s\S]*?)(?=\{\{else|$)/
chainIfPattern == <<Bol>> \o IfHeader(1) \o <<Lazy(AnyChar, 0, 2), BeforeElseOrEnd>>

\* /^\{\{else if\s+([^}]+)\}\}([\s\S]*?)(?=\{\{else|$)/g
elseIfPattern == <<Bol>> \o ElseIfHeader(1) \o <<Lazy(AnyChar, 0, 2), BeforeElseOrEnd>>

\* /^\{\{else\}\}([\s\S]*?)\{\{\/if\}\}$/
chainElsePattern == <<Bol, Lit(ElseTag), Lazy(AnyChar, 0, 1), Lit(EndIfTag), Eol>>

\* A part of a chain, and the state of the scan of processIfElseIfChain:
\* the parts pushed so far and the text left in current
Part(type, condition, content) ==
  [type |-> type, condition |-> condition, content |-> content]

Scan(parts, current) == [parts |-> parts, current |-> current]

\* a part is pushed for match m on current, and current moves past it
Pushed(scan, type, m) ==
  Scan(Append(scan.parts,
              Part(type, Trim(Group(scan.current, m, 1)), Group(scan.current, m, 2))),
       SubSeq(scan.current, m.end, Len(scan.current)))

\* the `if' block: template.match(chainIfPattern)
AfterIf(scan, ifMatch) ==
  IF ifMatch.ok THEN Pushed(scan, "if", ifMatch) ELSE scan

\* the `else if' loop, from current.match(elseIfPattern) on
RECURSIVE ElseIfLoop(_)
RECURSIVE AfterElseIf(_, _)
AfterElseIf(scan, elseIfMatch) ==
  IF elseIfMatch.ok THEN ElseIfLoop(Pushed(scan, "elseif", elseIfMatch)) ELSE scan

ElseIfLoop(scan) == AfterElseIf(scan, MatchAt(elseIfPattern, scan.current, 1))

\* the `else' block: current.match(chainElsePattern)
AfterElse(scan, elseMatch) ==
  IF elseMatch.ok
  THEN Append(scan.parts, Part("else", <<>>, Group(scan.current, elseMatch, 1)))
  ELSE scan.parts

ElseBlock(scan) == AfterElse(scan, MatchAt(chainElsePattern, scan.current, 1))

\* the parts of a chain, in the order processIfElseIfChain pushes them
ChainParts(match) ==
  ElseBlock(ElseIfLoop(AfterIf(Scan(<<>>, match), MatchAt(chainIfPattern, match, 1))))

\* the `for' loop of processIfElseIfChain over the parts
RECURSIVE FirstSelected(_, _)
FirstSelected(parts, variables) ==
  IF parts = <<>> THEN <<>>
  ELSE IF Head(parts).type = "else" \/ evaluateCondition(Head(parts).condition, variables)
       THEN Head(parts).content
       ELSE FirstSelected(Tail(parts), variables)

\* processIfElseIfChain
processIfElseIfChain(match, variables) ==
  FirstSelected(ChainParts(match), variables)

\* the callback of each replace of processConditionals, on a match m
ChainCallback(content, m, variables) ==
  processIfElseIfChain(Whole(content, m), variables)

IfElseCallback(content, m, variables) ==
  IF evaluateCondition(Trim(Group(content, m, 1)), variables)
  THEN Group(content, m, 2) ELSE Group(content, m, 3)

IfCallback(content, m, variables) ==
  IF evaluateCondition(Trim(Group(content, m, 1)), variables)
  THEN Group(content, m, 2) ELSE <<>>

\* the unless callback without its negation
UnlessCallback_NotNegated(content, m, variables) ==
  IF evaluateCondition(Trim(Group(content, m, 1)), variables)
  THEN Group(content, m, 2) ELSE <<>>

UnlessCallback(content, m, variables) ==
  IF ~evaluateCondition(Trim(Group(content, m, 1)), variables)
  THEN Group(content, m, 2) ELSE <<>>

\* content.replace(pattern, callback) given the matches ms of the pattern
ChainsReplaced(content, ms, variables) ==
  Splice(content, ms,
         [j \in 1..Len(ms) |-> ChainCallback(content, ms[j], variables)], 1)

IfElseReplaced(content, ms, variables) ==
  Splice(content, ms,
         [j \in 1..Len(ms) |-> IfElseCallback(content, ms[j], variables)], 1)

IfReplaced(content, ms, variables) ==
  Splice(content, ms,
         [j \in 1..Len(ms) |-> IfCallback(content, ms[j], variables)], 1)

UnlessReplaced(content, ms, variables) ==
  Splice(content, ms,
         [j \in 1..Len(ms) |-> UnlessCallback(content, ms[j], variables)], 1)

\* processConditionals is four replace passes in a row; a pass each:
\* the if / else if / else chains
resolveChains(content, variables) ==
  ChainsReplaced(content, MatchAll(ifElseIfPattern, content, 1), variables)

\* the {{#if}}..{{#else}}..{{/if}} blocks
resolveIfElse(content, variables) ==
  IfElseReplaced(content, MatchAll(ifElsePattern, content, 1), variables)

\* the simple {{#if}}..{{/if}} blocks
resolveIf(content, variables) ==
  IfReplaced(content, MatchAll(ifPattern, content, 1), variables)

\* the {{#unless}}..{{/unless}} blocks
resolveUnless(content, variables) ==
  UnlessReplaced(content, MatchAll(unlessPattern, content, 1), variables)

(***************************************************************************)
(* TemplateEngine: substitution and cleanup                                 *)
(***************************************************************************)
\* /\{\{(?!#|\/|\^)([^}]+)\}\}/g
variablePattern ==
  <<Lit(<<"{", "{">>),
    NegLook(<<Alt(<<<<Lit(<<"#">>)>>, <<Lit(<<"/">>)>>, <<Lit(<<"^">>)>>>>, 0)>>),
    Rep(NCls({"}"}), 1, 1), Lit(<<"}", "}">>)>>

\* the messages of the engine: the pieces of each template literal
RequiredMissingError(name) == <<"Required variable '", name, "' is missing">>
UsingDefaultWarning(name) == <<"Using default value for variable '", name, "'">>
UndefinedVariableWarning(name) == <<"Undefined variable '", name, "', using empty string">>
VariableError(name, error) == <<"Error processing variable '", name, "': ", error>>
TemplateProcessingError(error) == <<"Template processing error: ", error>>

MissingMarker(name) == <<"[", "M", "I", "S", "S", "I", "N", "G", ":", " ">> \o name \o <<"]">>
ErrorMarker(name) == <<"[", "E", "R", "R", "O", "R", ":", " ">> \o name \o <<"]">>

\* templateVariables.find(v => v.name === name): the index of the first
\* declaration of that name, 0 when there is none
FindVariable(templateVariables, name) ==
  IF \E j \in 1..Len(templateVariables) : templateVariables[j].name = name
  THEN Min({j \in 1..Len(templateVariables) : templateVariables[j].name = name})
  ELSE 0

\* what the callback of processVariables returns and pushes
Substitution(text, errors, warnings) ==
  [text |-> text, errors |-> errors, warnings |-> warnings]

\* the callback looking at the default before it looks at required
SubstituteMissing_DefaultFirst(trimmedExpression, templateVariables, found) ==
  IF found # 0 /\ templateVariables[found].default # Undefined
  THEN Substitution(JsString(templateVariables[found].default),
                    <<>>, <<UsingDefaultWarning(trimmedExpression)>>)
  ELSE IF found # 0 /\ templateVariables[found].required
  THEN Substitution(MissingMarker(trimmedExpression),
                    <<RequiredMissingError(trimmedExpression)>>, <<>>)
  ELSE Substitution(<<>>, <<>>, <<UndefinedVariableWarning(trimmedExpression)>>)

\* the callback testing the default for truthiness, not for undefined
SubstituteMissing_TruthyDefault(trimmedExpression, templateVariables, found) ==
  IF found # 0 /\ templateVariables[found].required
  THEN Substitution(MissingMarker(trimmedExpression),
                    <<RequiredMissingError(trimmedExpression)>>, <<>>)
  ELSE IF found # 0 /\ JsTruthy(templateVariables[found].default)
  THEN Substitution(JsString(templateVariables[found].default),
                    <<>>, <<UsingDefaultWarning(trimmedExpression)>>)
  ELSE Substitution(<<>>, <<>>, <<UndefinedVariableWarning(trimmedExpression)>>)

\* the callback for an expression whose value is undefined or null, given
\* the index of the declaration found for it
SubstituteMissing(trimmedExpression, templateVariables, found) ==
  IF found # 0 /\ templateVariables[found].required
  THEN Substitution(MissingMarker(trimmedExpression),
                    <<RequiredMissingError(trimmedExpression)>>, <<>>)
  ELSE IF found # 0 /\ templateVariables[found].default # Undefined
  THEN Substitution(JsString(templateVariables[found].default),
                    <<>>, <<UsingDefaultWarning(trimmedExpression)>>)
  ELSE Substitution(<<>>, <<>>, <<UndefinedVariableWarning(trimmedExpression)>>)

\* the callback with a catch block that swallows the exception
SubstituteValue_Swallowed(trimmedExpression, value, templateVariables) ==
  IF IsThrow(value)
  THEN Substitution(<<>>, <<>>, <<>>)
  ELSE IF IsNullish(value)
  THEN SubstituteMissing(trimmedExpression, templateVariables,
                         FindVariable(templateVariables, trimmedExpression))
  ELSE Substitution(JsString(value), <<>>, <<>>)

\* the callback, given the value of the expression
SubstituteValue(trimmedExpression, value, templateVariables) ==
  IF IsThrow(value)
  THEN Substitution(ErrorMarker(trimmedExpression),
                    <<VariableError(trimmedExpression, value.v)>>, <<>>)
  ELSE IF IsNullish(value)
  THEN SubstituteMissing(trimmedExpression, templateVariables,
                         FindVariable(templateVariables, trimmedExpression))
  ELSE Substitution(JsString(value), <<>>, <<>>)

\* the callback of processVariables for one placeholder
SubstituteTrimmed(trimmedExpression, variables, templateVariables) ==
  SubstituteValue(trimmedExpression,
                  evaluateExpression(trimmedExpression, variables),
                  templateVariables)

SubstituteVariable(varExpression, variables, templateVariables) ==
  SubstituteTrimmed(Trim(varExpression), variables, templateVariables)

\* the concatenation of a sequence of sequences
RECURSIVE Flatten(_)
Flatten(ss) == IF ss = <<>> THEN <<>> ELSE Head(ss) \o Flatten(Tail(ss))

\* the result of processVariables given what the callback did on each of
\* the matches ms
Substituted(content, ms, outs, errors, warnings) ==
  [content |-> Splice(content, ms, [j \in 1..Len(ms) |-> outs[j].text], 1),
   errors |-> errors \o Flatten([j \in 1..Len(ms) |-> outs[j].errors]),
   warnings |-> warnings \o Flatten([j \in 1..Len(ms) |-> outs[j].warnings])]

\* the callback on each of the matches ms
Substitutions(content, ms, variables, templateVariables) ==
  [j \in 1..Len(ms) |->
     SubstituteVariable(Group(content, ms[j], 1), variables, templateVariables)]

VariablesReplaced(content, ms, variables, templateVariables, errors, warnings) ==
  Substituted(content, ms, Substitutions(content, ms, variables, templateVariables),
              errors, warnings)

\* processVariables: the text, and errors and warnings after its pushes
processVariables(content, variables, templateVariables, errors, warnings) ==
  VariablesReplaced(content, MatchAll(variablePattern, content, 1),
                    variables, templateVariables, errors, warnings)

\* the text s with the match m, if there is one, replaced
ReplacedMatch(s, m, text) ==
  IF m.ok THEN SubSeq(s, 1, m.start - 1) \o text \o SubSeq(s, m.end, Len(s)) ELSE s

\* String.prototype.replace(re, text) without the g flag
ReplaceFirst(re, s, text) == ReplacedMatch(s, Exec(re, s, 1), text)

\* the text s with each of the matches ms replaced
ReplacedMatches(s, ms, text) == Splice(s, ms, [j \in 1..Len(ms) |-> text], 1)

\* String.prototype.replace(re, text) with the g flag
ReplaceEvery(re, s, text) == ReplacedMatches(s, MatchAll(re, s, 1), text)

\* /\n\s*\n\s*\n/g
blankLinesPattern ==
  <<Lit(<<"\n">>), Rep(Space, 0, 0), Lit(<<"\n">>), Rep(Space, 0, 0), Lit(<<"\n">>)>>

\* /^\s*\n/
leadingBlankPattern == <<Bol, Rep(Space, 0, 0), Lit(<<"\n">>)>>

\* /\s*$/
trailingSpacePattern == <<Rep(Space, 0, 0), Eol>>

\* a cleanup that collapses the first run of blank lines only
cleanupTemplate_FirstRunOnly(content) ==
  Trim(ReplaceFirst(trailingSpacePattern,
         ReplaceFirst(leadingBlankPattern,
           ReplaceFirst(blankLinesPattern, content, <<"\n", "\n">>),
           <<>>),
         <<>>))

\* cleanupTemplate
cleanupTemplate(content) ==
  Trim(ReplaceFirst(trailingSpacePattern,
         ReplaceFirst(leadingBlankPattern,
           ReplaceEvery(blankLinesPattern, content, <<"\n", "\n">>),
           <<>>),
         <<>>))


(***************************************************************************)
(* Calls of processTemplate: the templates, contexts and declarations      *)
(***************************************************************************)
\* the number of else-if branches of a chain goes up to MaxElseIf
MaxElseIf == 2
\* the length of the bodies of blanks goes up to MaxBlank
MaxBlank == 4
\* a placeholder is repeated up to MaxRepeat times in a body
MaxRepeat == 2

\* the text of the tags of the template language
IfText(c) == <<"{", "{", "#", "i", "f", " ">> \o c \o <<"}", "}">>
ElseIfText(c) == <<"{", "{", "e", "l", "s", "e", " ", "i", "f", " ">> \o c \o <<"}", "}">>
HashElseText == <<"{", "{", "#", "e", "l", "s", "e", "}", "}">>
UnlessText(c) == <<"{", "{", "#", "u", "n", "l", "e", "s", "s", " ">> \o c \o <<"}", "}">>
EndUnlessText == <<"{", "{", "/", "u", "n", "l", "e", "s", "s", "}", "}">>
Placeholder(e) == <<"{", "{">> \o e \o <<"}", "}">>

\* the bodies of the two scenarios of the specification
PremiumBody == <<"H", "e", "l", "l", "o", " ", "{", "{", "#", "i", "f", " ", "p", "r", "e", "m", "i", "u", "m", "}", "}", "V", "I", "P", " ", "{", "{", "/", "i", "f", "}", "}", "{", "{", "n", "a", "m", "e", "}", "}", "!">>
ScoreBody ==
  IfText(<<"s", "c", "o", "r", "e", " ", ">", " ", "9", "0">>) \o <<"A">> \o ElseIfText(<<"s", "c", "o", "r", "e", " ", ">", " ", "7", "0">>) \o <<"B">>
    \o ElseTag \o <<"C">> \o EndIfTag

\* text around a block, and branch contents: text, text on lines of its
\* own, a placeholder, a placeholder whose name starts with "else"
Pres == {<<>>, <<"P", " ">>}
Posts == {<<>>, <<" ", "Q">>}
PlainContents == {<<"X">>, <<"\n", "X", "\n">>, Placeholder(<<"n">>)}
BranchContents == PlainContents \cup {Placeholder(<<"e", "l", "s", "e", "w", "h", "e", "r", "e">>) \o <<"X">>}
ConditionNames == {<<"a">>, <<"b">>, <<"c">>}

\* {{#if c}}x{{/if}}
SingleIf(pre, c, x, post) == pre \o IfText(c) \o x \o EndIfTag \o post
\* {{#if c}}x{{else}}y{{/if}}
IfElse(pre, c, x, y, post) ==
  pre \o IfText(c) \o x \o ElseTag \o y \o EndIfTag \o post
\* {{#unless c}}x{{/unless}}
Unless(pre, c, x, post) == pre \o UnlessText(c) \o x \o EndUnlessText \o post
\* {{#if a}}X{{#if b}}Y{{/if}}Z{{/if}}
Nested(a, b) ==
  IfText(a) \o <<"X">> \o IfText(b) \o <<"Y">> \o EndIfTag \o <<"Z">> \o EndIfTag
\* {{#if a}}{{#if b}}X{{#else}}Y{{/if}}{{/if}}
NestedHashElse(a, b) ==
  IfText(a) \o IfText(b) \o <<"X">> \o HashElseText \o <<"Y">> \o EndIfTag \o EndIfTag

\* the content of branch j of a chain: branch 1 is the if branch
BranchLetters == <<"A", "B", "C", "D", "E", "F", "G", "H">>
BranchContent(j) == <<BranchLetters[j]>>
ElseContent == <<"Z">>

\* the else-if branches j.. of a chain whose else-if conditions are cs
RECURSIVE ElseIfBranches(_, _)
ElseIfBranches(cs, j) ==
  IF j > Len(cs) THEN <<>>
  ELSE ElseIfText(cs[j]) \o BranchContent(j + 1) \o ElseIfBranches(cs, j + 1)

\* {{#if c}}A{{else if cs[1]}}B..[{{else}}Z]{{/if}}
Chain(c, cs, hasElse) ==
  IfText(c) \o BranchContent(1) \o ElseIfBranches(cs, 1)
    \o (IF hasElse THEN ElseTag \o ElseContent ELSE <<>>) \o EndIfTag

\* n times the placeholder {{e}}, a space between
RECURSIVE Repeated(_, _)
Repeated(e, n) ==
  IF n = 0 THEN <<>>
  ELSE Placeholder(e) \o (IF n > 1 THEN <<" ">> ELSE <<>>) \o Repeated(e, n - 1)

SingleIfBodies ==
  {SingleIf(pre, <<"a">>, x, post) : pre \in Pres, x \in PlainContents, post \in Posts}
IfElseBodies ==
  {IfElse(pre, <<"a">>, x, y, <<>>) : pre \in Pres, x \in BranchContents, y \in PlainContents}
UnlessBodies ==
  {Unless(pre, <<"a">>, x, post) : pre \in Pres, x \in BranchContents, post \in Posts}
ChainConditions ==
  UNION {[1..k -> ConditionNames] : k \in 1..MaxElseIf}
ChainBodies ==
  {Chain(<<"a">>, cs, hasElse) : cs \in ChainConditions, hasElse \in BOOLEAN}
NestedBodies ==
  {Nested(<<"a">>, <<"b">>), NestedHashElse(<<"a">>, <<"b">>)}
DirectiveBodies ==
  SingleIfBodies \cup IfElseBodies \cup UnlessBodies \cup ChainBodies \cup NestedBodies

\* bodies of placeholders: one name once or more, padded, two names, an
\* index into a null array, tags no pass consumes, and blank lines
PlaceholderBodies ==
  {Repeated(<<"n">>, k) : k \in 1..MaxRepeat}
    \cup {<<"H", "i", " ", "{", "{", " ", "n", " ", "}", "}", "!">>,
          <<"{", "{", "n", "}", "}", " ", "{", "{", "m", "}", "}">>,
          <<"{", "{", "x", "[", "0", "]", "}", "}", " ", "{", "{", "n", "}", "}">>,
          <<"{", "{", "n", "}", "}", "-", "{", "{", "x", "[", "0", "]", "}", "}", "-", "{", "{", "m", "}", "}">>,
          <<"{", "{", "#", "e", "a", "c", "h", " ", "a", "}", "}", "{", "{", "n", "}", "}", "{", "{", "/", "e", "a", "c", "h", "}", "}">>,
          <<"\n", "\n", "{", "{", "n", "}", "}", "\n", "\n", "\n", "\n", "B", " ", " ", "\n">>,
          SingleIf(<<>>, <<"a">>, Placeholder(<<"n">>), <<" ">> \o Placeholder(<<"n">>))}

\* bodies of line breaks, blanks and a letter, up to MaxBlank characters,
\* and one with two runs of blank lines
BlankBodies ==
  UNION {[1..k -> {"\n", " ", "a"}] : k \in 1..MaxBlank}
    \cup {<<"A", "\n", "\n", "\n", "B", "\n", " ", "\n", "\n", "C">>}

\* the variable mappings: a, b, c true or false, n a string
Flags == {Bool(TRUE), Bool(FALSE)}
ConditionContexts ==
  {Obj((<<"a">> :> a) @@ (<<"b">> :> b) @@ (<<"c">> :> c)
       @@ (<<"n">> :> Str(<<"A", "d", "a">>)))
     : a \in Flags, b \in Flags, c \in Flags}
\* n a string, null or absent; x null; a true or false
NameContexts ==
  {Obj((<<"a">> :> a) @@ (<<"x">> :> Null) @@ f)
     : a \in Flags,
       f \in {<<>>, <<"n">> :> Str(<<"A", "d", "a">>), <<"n">> :> Null}}
PremiumContexts ==
  {Obj((<<"p", "r", "e", "m", "i", "u", "m">> :> p) @@ (<<"n", "a", "m", "e">> :> Str(<<"A", "d", "a">>)))
     : p \in Flags}
ScoreContexts ==
  {Obj(<<"s", "c", "o", "r", "e">> :> Num(s)) : s \in {50, 80, 95}}

\* declarations: [name, required, default], the default Undefined when
\* the declaration has none
Declaration(name, required, default) ==
  [name |-> name, required |-> required, default |-> default]
Defaults == {Undefined, Str(<<"d", "f">>), Num(5), Bool(FALSE)}
DeclarationLists ==
  {<<>>}
    \cup {<<Declaration(<<"n">>, r, d)>> : r \in BOOLEAN, d \in Defaults}
    \cup {<<Declaration(<<"m">>, TRUE, Undefined), Declaration(<<"n">>, FALSE, Str(<<"d", "f">>))>>}

\* the calls: [template, variables, templateVariables]; a template that
\* is not a string is what an untyped caller can pass
\* conditions whose evaluation throws when x is null: an index into x,
\* alone, in a helper call and in a comparison
RaisingConditions ==
  {<<"x", "[", "0", "]">>, <<"g", "t", " ", "x", "[", "0", "]", " ", "1">>, <<"x", "[", "0", "]", " ", "=", "=", " ", "1">>}
RaisingBodies ==
  UNION {{SingleIf(pre, c, <<"A">>, post),
          IfElse(pre, c, <<"A">>, <<"B">>, post),
          Unless(pre, c, <<"A">>, post)}
           : pre \in Pres, post \in Posts, c \in RaisingConditions}
NullContext == Obj((<<"x">> :> Null) @@ (<<"n">> :> Str(<<"N">>)))

\* blocks with the placeholder {{m}} in one branch only: a single if, the
\* if branch and the else branch of an if/else, an unless, the else-if
\* branch of a chain, and the outer block of two nested ones after the
\* inner block
UnselectedIf(pre, post) == SingleIf(pre, <<"a">>, Placeholder(<<"m">>), post)
UnselectedIfBranch(pre, post) ==
  IfElse(pre, <<"a">>, Placeholder(<<"m">>), <<"Y">>, post)
UnselectedElseBranch(pre, post) ==
  IfElse(pre, <<"a">>, <<"X">>, Placeholder(<<"m">>), post)
UnselectedUnless(pre, post) == Unless(pre, <<"a">>, Placeholder(<<"m">>), post)
UnselectedElseIf(pre, post) ==
  pre \o IfText(<<"a">>) \o <<"X">> \o ElseIfText(<<"b">>) \o Placeholder(<<"m">>)
    \o ElseTag \o <<"Z">> \o EndIfTag \o post
UnselectedOuter(pre, post) ==
  pre \o IfText(<<"a">>) \o <<"X">> \o IfText(<<"b">>) \o <<"Y">> \o EndIfTag
    \o Placeholder(<<"m">>) \o EndIfTag \o post
UnselectedBodies ==
  UNION {{UnselectedIf(pre, post), UnselectedIfBranch(pre, post),
          UnselectedElseBranch(pre, post), UnselectedUnless(pre, post),
          UnselectedElseIf(pre, post), UnselectedOuter(pre, post)}
           : pre \in Pres, post \in Posts}

\* m is declared required and has no value
RequiredM == <<Declaration(<<"m">>, TRUE, Undefined)>>
FlagContexts == {Obj((<<"a">> :> a) @@ (<<"b">> :> b)) : a \in Flags, b \in Flags}

\* values that are directive text, and a body that inserts one
DirectiveTexts ==
  {SingleIf(<<>>, <<"a">>, <<"X">>, <<>>),
   IfElse(<<>>, <<"a">>, <<"X">>, <<"Y">>, <<>>),
   Unless(<<>>, <<"a">>, <<"X">>, <<>>)}
InsertingBody == <<"P", " ">> \o Placeholder(<<"v">>) \o <<" ", "Q">>
DirectiveValueContexts ==
  {Obj((<<"a">> :> a) @@ (<<"v">> :> Str(text))) : a \in Flags, text \in DirectiveTexts}

Calls ==
  (({Str(b) : b \in DirectiveBodies} \X ConditionContexts) \X {<<>>})
    \cup (({Str(b) : b \in RaisingBodies} \X {NullContext}) \X {<<>>})
    \cup (({Str(b) : b \in UnselectedBodies} \X FlagContexts) \X {RequiredM})
    \cup (({Str(InsertingBody)} \X DirectiveValueContexts) \X {<<>>})
    \cup (({Str(b) : b \in PlaceholderBodies} \X NameContexts) \X DeclarationLists)
    \cup (({Str(PremiumBody)} \X PremiumContexts) \X {<<>>})
    \cup (({Str(ScoreBody)} \X ScoreContexts) \X {<<>>})
    \cup (({Undefined, Null} \X {Obj(<<>>)}) \X {<<>>})
    \cup (({Str(b) : b \in BlankBodies} \X {Obj(<<>>)}) \X {<<>>})


(***************************************************************************)
(* processTemplate as a state machine: a call, then the passes in the      *)
(* order of the code, then the return                                      *)
(***************************************************************************)
VARIABLES
  callTemplate,      \* the argument template of the call
  callVariables,     \* the argument variables
  callDeclarations,  \* the argument templateVariables
  processedContent,  \* the local processedContent
  errorList,         \* the local errors
  warningList,       \* the local warnings
  pc,                \* the pass to run next, "returned" after the return
  calledFunction,    \* the function a direct call is made to, "none" without one
  arguments,         \* the arguments of the direct call
  returnValue,       \* <<>> before the direct call returns, <<value>> after
  returned,          \* the calls of processTemplate that returned before the
                     \* current one: their arguments and results, in order
  state,             \* the state of the useMcp hook
  operations,        \* the operations of the hook that were started, with
                     \* the requests each one posted and how they settled
  now,               \* what Date.now() returns
  loaded,            \* the loaded flag of each of the two template loaders
  loads              \* the calls of loadTemplates: the loader, how far the
                     \* call is, what it found and what it has registered

engineVars ==
  <<callTemplate, callVariables, callDeclarations, processedContent,
    errorList, warningList, pc>>

functionVars == <<calledFunction, arguments, returnValue>>

hookVars == <<state, operations, now>>

\* what a call of processTemplate leaves alone, what a direct call does,
\* and what the hook does
loaderVars == <<loaded, loads>>

outsideEngine == <<functionVars, returned, hookVars, loaderVars>>
outsideFunction == <<engineVars, returned, hookVars, loaderVars>>
outsideHook == <<engineVars, functionVars, returned, loaderVars>>
outsideLoaders == <<engineVars, functionVars, returned, hookVars>>

vars == <<engineVars, functionVars, returned, hookVars, loaderVars>>

\* useState(...) of useMcp: the state of the hook before it is mounted
initialState ==
  [connected |-> FALSE, loading |-> FALSE, error |-> Null,
   tools |-> <<>>, prompts |-> <<>>, resources |-> <<>>,
   resourceTemplates |-> <<>>, serverInfo |-> Null, messageHistory |-> <<>>]

\* the hook is not mounted, and the loaders are as constructed
HookUnmounted ==
  /\ state = initialState
  /\ operations = <<>>
  /\ now = 0
  /\ loaded = [loader \in {"TemplateLoader", "McpTemplateLoader"} |-> FALSE]
  /\ loads = <<>>

\* what content.replace(...) throws when content is not a string
ReplaceTypeError == <<"T", "y", "p", "e", "E", "r", "r", "o", "r">>

\* a catch block that throws the error on
Caught_Rethrown(errors, error) == [pc |-> "raised", errors |-> errors]

\* the catch block of processTemplate: the error is pushed and the
\* function goes on to its return statement
Caught(errors, error) ==
  [pc |-> "returned", errors |-> Append(errors, TemplateProcessingError(error))]

Init ==
  /\ callTemplate = Str(<<>>)
  /\ callVariables = Obj(<<>>)
  /\ callDeclarations = <<>>
  /\ processedContent = Str(<<>>)
  /\ errorList = <<>>
  /\ warningList = <<>>
  /\ pc = "idle"
  /\ calledFunction = "none"
  /\ arguments = <<>>
  /\ returnValue = <<>>
  /\ returned = <<>>
  /\ HookUnmounted

\* processTemplate is entered: errors = [], warnings = [],
\* processedContent = template.  The engine keeps nothing from one call
\* to the next, so a behaviour is one call.
Call ==
  /\ pc = "idle"
  /\ \E call \in Calls :
       /\ callTemplate' = call[1][1]
       /\ callVariables' = call[1][2]
       /\ callDeclarations' = call[2]
       /\ processedContent' = call[1][1]
  /\ errorList' = <<>>
  /\ warningList' = <<>>
  /\ pc' = "chains"
  /\ UNCHANGED outsideEngine

\* processConditionals, first replace: the chains.  Calling replace on
\* a template that is not a string throws, into the catch block.
ResolveChains ==
  /\ pc = "chains"
  /\ IF processedContent.t # "string"
     THEN LET caught == Caught(errorList, ReplaceTypeError)
          IN /\ pc' = caught.pc
             /\ errorList' = caught.errors
             /\ UNCHANGED processedContent
     ELSE /\ processedContent' = Str(resolveChains(processedContent.v, callVariables))
          /\ pc' = "ifElse"
          /\ UNCHANGED errorList
  /\ UNCHANGED <<callTemplate, callVariables, callDeclarations, warningList, outsideEngine>>

\* processConditionals, second replace
ResolveIfElse ==
  /\ pc = "ifElse"
  /\ processedContent' = Str(resolveIfElse(processedContent.v, callVariables))
  /\ pc' = "if"
  /\ UNCHANGED <<callTemplate, callVariables, callDeclarations, errorList, warningList,
               outsideEngine>>

\* processConditionals, third replace
ResolveIf ==
  /\ pc = "if"
  /\ processedContent' = Str(resolveIf(processedContent.v, callVariables))
  /\ pc' = "unless"
  /\ UNCHANGED <<callTemplate, callVariables, callDeclarations, errorList, warningList,
               outsideEngine>>

\* processConditionals, fourth replace
ResolveUnless ==
  /\ pc = "unless"
  /\ processedContent' = Str(resolveUnless(processedContent.v, callVariables))
  /\ pc' = "variables"
  /\ UNCHANGED <<callTemplate, callVariables, callDeclarations, errorList, warningList,
               outsideEngine>>

\* processVariables
SubstituteVariables ==
  /\ pc = "variables"
  /\ LET out == processVariables(processedContent.v, callVariables,
                                 callDeclarations, errorList, warningList)
     IN /\ processedContent' = Str(out.content)
        /\ errorList' = out.errors
        /\ warningList' = out.warnings
  /\ pc' = "cleanup"
  /\ UNCHANGED <<callTemplate, callVariables, callDeclarations, outsideEngine>>

\* cleanupTemplate, and the return of {content, errors, warnings}
Cleanup ==
  /\ pc = "cleanup"
  /\ processedContent' = Str(cleanupTemplate(processedContent.v))
  /\ pc' = "returned"
  /\ UNCHANGED <<callTemplate, callVariables, callDeclarations, errorList, warningList,
               outsideEngine>>

Next ==
  \/ Call
  \/ ResolveChains
  \/ ResolveIfElse
  \/ ResolveIf
  \/ ResolveUnless
  \/ SubstituteVariables
  \/ Cleanup

Spec == Init /\ [][Next]_vars


(***************************************************************************)
(* The render result around processTemplate (promptManager.processTemplate *)
(* is not among the sources; ProcessedPrompt is its type)                  *)
(***************************************************************************)
\* the root variable names the placeholders of a body refer to
ReferencedNames(body) ==
  {SplitChar(Trim(Group(body, m, 1)), ".")[1] :
     m \in Range(MatchAll(variablePattern, body, 1))}

\* missing_variables: the names that are declared required, referenced in
\* the body and given no value (undefined or null) by the mapping
missing_variables(body, variables, templateVariables) ==
  {d.name : d \in {e \in Range(templateVariables) :
                     /\ e.required
                     /\ e.name \in ReferencedNames(body)
                     /\ IsNullish(GetProp(variables, e.name))}}

(***************************************************************************)
(* The properties                                                          *)
(***************************************************************************)
Returned == pc = "returned"

\* whether the variable called name is truthy in the call
Truthy(name) == isTruthy(GetProp(callVariables, name))

\* what a text without directives is rendered to: its placeholders
\* substituted, then the cleanup
Rendered(text) ==
  cleanupTemplate(
    processVariables(text, callVariables, callDeclarations, <<>>, <<>>).content)

\* {{...}}
SpanPattern == <<Lit(<<"{", "{">>), Lazy(AnyChar, 0, 0), Lit(<<"}", "}">>)>>

\* C1: the content processTemplate returns holds no {{...}} span, whatever
\* the body and the mapping: placeholders are replaced and tags consumed.
C1_NoUnresolvedSpan ==
  Returned /\ callTemplate.t = "string" => ~Test(SpanPattern, processedContent.v)

\* C2: a block {{#if C}}X{{/if}} renders to X when C is truthy and to
\* nothing when it is falsy, the text before and after it unchanged; the
\* scenario "Hello {{#if premium}}VIP {{/if}}{{name}}!" renders
\* "Hello VIP Ada!" with premium true and "Hello Ada!" with premium false.
C2_SingleBranch ==
  Returned =>
    /\ \A pre \in Pres, x \in PlainContents, post \in Posts :
         callTemplate = Str(SingleIf(pre, <<"a">>, x, post)) =>
           processedContent.v
             = Rendered(pre \o (IF Truthy(<<"a">>) THEN x ELSE <<>>) \o post)
    /\ callTemplate = Str(PremiumBody) =>
         processedContent.v
           = IF Truthy(<<"p", "r", "e", "m", "i", "u", "m">>)
             THEN <<"H", "e", "l", "l", "o", " ", "V", "I", "P", " ", "A", "d", "a", "!">>
             ELSE <<"H", "e", "l", "l", "o", " ", "A", "d", "a", "!">>

\* C3: a block {{#if A}}X{{else}}Y{{/if}} renders to exactly X when A is
\* truthy and to exactly Y when A is falsy.
C3_TwoBranches ==
  Returned =>
    \A pre \in Pres, x \in BranchContents, y \in PlainContents :
      callTemplate = Str(IfElse(pre, <<"a">>, x, y, <<>>)) =>
        processedContent.v = Rendered(pre \o (IF Truthy(<<"a">>) THEN x ELSE y))

\* the branches of a chain whose conditions are truthy: 1 is the if branch
TruthyBranches(c, cs) ==
  {j \in 1..(Len(cs) + 1) : Truthy((<<c>> \o cs)[j])}

\* C4: a chain renders to exactly the content of the first branch whose
\* condition is truthy, with or without a trailing else; the scenario
\* {{#if score > 90}}A{{else if score > 70}}B{{else}}C{{/if}} renders "B"
\* with score 80.
C4_FirstTruthyBranch ==
  Returned =>
    /\ \A cs \in ChainConditions, hasElse \in BOOLEAN :
         /\ callTemplate = Str(Chain(<<"a">>, cs, hasElse))
         /\ TruthyBranches(<<"a">>, cs) # {}
         => processedContent.v = BranchContent(Min(TruthyBranches(<<"a">>, cs)))
    /\ callTemplate = Str(ScoreBody)
         /\ GetProp(callVariables, <<"s", "c", "o", "r", "e">>) = Num(80)
         => processedContent.v = <<"B">>

\* C5: a chain none of whose conditions is truthy renders to exactly the
\* else content when it has a trailing else, and to nothing when it has
\* none.
C5_NoTruthyBranch ==
  Returned =>
    /\ \A cs \in ChainConditions, hasElse \in BOOLEAN :
         /\ callTemplate = Str(Chain(<<"a">>, cs, hasElse))
         /\ TruthyBranches(<<"a">>, cs) = {}
         => processedContent.v = IF hasElse THEN ElseContent ELSE <<>>
    /\ \A pre \in Pres, x \in BranchContents, y \in PlainContents :
         /\ callTemplate = Str(IfElse(pre, <<"a">>, x, y, <<>>))
         /\ ~Truthy(<<"a">>)
         => processedContent.v = Rendered(pre \o y)

\* C6: a block {{#unless A}}X{{/unless}} renders to exactly X when A is not
\* truthy and to nothing when A is truthy.
C6_Unless ==
  Returned =>
    \A pre \in Pres, x \in BranchContents, post \in Posts :
      callTemplate = Str(Unless(pre, <<"a">>, x, post)) =>
        processedContent.v
          = Rendered(pre \o (IF ~Truthy(<<"a">>) THEN x ELSE <<>>) \o post)

\* an unless block whose condition is not truthy has returned its content
C6_UnlessKept ==
  /\ Returned
  /\ callTemplate = Str(Unless(<<"P", " ">>, <<"a">>, <<"X">>, <<" ", "Q">>))
  /\ ~Truthy(<<"a">>)
  /\ processedContent = Str(<<"P", " ", "X", " ", "Q">>)

\* C7: {{#if A}}X{{#if B}}Y{{/if}}Z{{/if}} renders to XYZ when A and B are
\* truthy, to XZ when A is truthy and B is not, and to nothing when A is
\* not truthy; no {{/if}} is left.
C7_Nested ==
  Returned /\ callTemplate = Str(Nested(<<"a">>, <<"b">>)) =>
    processedContent.v
      = IF ~Truthy(<<"a">>) THEN <<>>
        ELSE IF Truthy(<<"b">>) THEN <<"X", "Y", "Z">>
        ELSE <<"X", "Z">>


RECURSIVE Joined(_, _)
Joined(text, k) ==
  IF k = 0 THEN <<>>
  ELSE text \o (IF k > 1 THEN <<" ">> ELSE <<>>) \o Joined(text, k - 1)

\* how often entry occurs in list
Count(list, entry) == Cardinality({j \in DOMAIN list : list[j] = entry})

\* the names the calls have placeholders for
PlaceholderNames == {<<"n">>, <<"m">>}

\* a placeholder of the call names a variable that is undefined or null
Unresolved(name) ==
  /\ callTemplate.t = "string"
  /\ callTemplate.v \in PlaceholderBodies
  /\ name \in ReferencedNames(callTemplate.v)
  /\ IsNullish(GetProp(callVariables, name))

\* the declaration find() gives for name is required
DeclaredRequired(name) ==
  /\ FindVariable(callDeclarations, name) # 0
  /\ callDeclarations[FindVariable(callDeclarations, name)].required

\* the declaration find() gives for name is not required and has a default
DeclaredDefault(name) ==
  /\ FindVariable(callDeclarations, name) # 0
  /\ ~callDeclarations[FindVariable(callDeclarations, name)].required
  /\ callDeclarations[FindVariable(callDeclarations, name)].default # Undefined

DefaultOf(name) == callDeclarations[FindVariable(callDeclarations, name)].default

\* C9: a placeholder {{name}} that resolves to undefined or null, name
\* declared required, is replaced by [MISSING: name], with the error
\* "Required variable 'name' is missing", and name is among the missing
\* variables of the render result.
C9_RequiredMissing ==
  Returned =>
    \A name \in PlaceholderNames :
      Unresolved(name) /\ DeclaredRequired(name) =>
        /\ Includes(processedContent.v, MissingMarker(name))
        /\ RequiredMissingError(name) \in Range(errorList)
        /\ UsingDefaultWarning(name) \notin Range(warningList)
        /\ name \in missing_variables(callTemplate.v, callVariables, callDeclarations)
        /\ \A k \in 1..MaxRepeat :
             callTemplate.v = Repeated(name, k) =>
               /\ processedContent.v = Joined(MissingMarker(name), k)
               /\ errorList = [j \in 1..k |-> RequiredMissingError(name)]

\* a required variable with a default, not supplied, has been reported
C9_MarkerWritten ==
  /\ Returned
  /\ callTemplate = Str(Placeholder(<<"n">>))
  /\ callDeclarations = <<Declaration(<<"n">>, TRUE, Str(<<"d", "f">>))>>
  /\ IsNullish(GetProp(callVariables, <<"n">>))
  /\ processedContent = Str(<<"[", "M", "I", "S", "S", "I", "N", "G", ":", " ", "n", "]">>)
  /\ errorList = <<RequiredMissingError(<<"n">>)>>
  /\ <<"n">> \in missing_variables(callTemplate.v, callVariables, callDeclarations)

\* C10: a placeholder {{name}} that resolves to undefined or null, name
\* declared not required and with a default, is replaced by the string
\* form of the default, with exactly one warning for the placeholder and
\* no error for it.
C10_DefaultUsed ==
  Returned =>
    \A name \in PlaceholderNames :
      Unresolved(name) /\ DeclaredDefault(name) =>
        /\ Includes(processedContent.v, JsString(DefaultOf(name)))
        /\ ~Includes(callTemplate.v, <<"{", "{", "#", "i", "f">>) =>
             Count(warningList, UsingDefaultWarning(name))
               = Cardinality({m \in Range(MatchAll(variablePattern, callTemplate.v, 1)) :
                                Trim(Group(callTemplate.v, m, 1)) = name})
        /\ UndefinedVariableWarning(name) \notin Range(warningList)
        /\ RequiredMissingError(name) \notin Range(errorList)
        /\ \A k \in 1..MaxRepeat :
             callTemplate.v = Repeated(name, k) =>
               /\ processedContent.v = Joined(JsString(DefaultOf(name)), k)
               /\ warningList = [j \in 1..k |-> UsingDefaultWarning(name)]
               /\ errorList = <<>>

\* the default false has been written for a placeholder without a value
C10_FalseDefaultWritten ==
  /\ Returned
  /\ callTemplate = Str(Placeholder(<<"n">>))
  /\ callDeclarations = <<Declaration(<<"n">>, FALSE, Bool(FALSE))>>
  /\ IsNullish(GetProp(callVariables, <<"n">>))
  /\ processedContent = Str(<<"f", "a", "l", "s", "e">>)
  /\ warningList = <<UsingDefaultWarning(<<"n">>)>>
  /\ errorList = <<>>


\* what processVariables makes of text alone, under the call's mapping
\* and declarations
Alone(text) == processVariables(text, callVariables, callDeclarations, <<>>, <<>>)

\* the outcome of the placeholders around a failing one: the failing one
\* replaced by its marker with one error, the ones before and after it as
\* they are substituted alone
AroundFailure(before, expr, after) ==
  [content |-> cleanupTemplate(before.content \o ErrorMarker(expr) \o after.content),
   errors |-> before.errors \o <<VariableError(expr, ReplaceTypeError)>> \o after.errors,
   warnings |-> before.warnings \o after.warnings]

\* C11: an exception raised while one placeholder is resolved ({{x[0]}}
\* with x null) is confined to it: it is replaced by [ERROR: x[0]], one
\* error "Error processing variable 'x[0]': ..." is recorded, and the
\* other placeholders of the body are substituted as they are without it.
C11_FailureConfined ==
  Returned =>
    /\ callTemplate = Str(<<"{", "{", "x", "[", "0", "]", "}", "}", " ", "{", "{", "n", "}", "}">>) =>
         [content |-> processedContent.v, errors |-> errorList, warnings |-> warningList]
           = AroundFailure(Alone(<<>>), <<"x", "[", "0", "]">>, Alone(<<" ", "{", "{", "n", "}", "}">>))
    /\ callTemplate = Str(<<"{", "{", "n", "}", "}", "-", "{", "{", "x", "[", "0", "]", "}", "}", "-", "{", "{", "m", "}", "}">>) =>
         [content |-> processedContent.v, errors |-> errorList, warnings |-> warningList]
           = AroundFailure(Alone(<<"{", "{", "n", "}", "}", "-">>), <<"x", "[", "0", "]">>, Alone(<<"-", "{", "{", "m", "}", "}">>))
    /\ callTemplate.t = "string" /\ Includes(callTemplate.v, <<"{", "{", "x", "[", "0", "]", "}", "}">>) =>
         Count(errorList, VariableError(<<"x", "[", "0", "]">>, ReplaceTypeError)) = 1

\* the placeholders before and after a failing one were substituted
C11_OthersSubstituted ==
  /\ Returned
  /\ callTemplate = Str(<<"{", "{", "n", "}", "}", "-", "{", "{", "x", "[", "0", "]", "}", "}", "-", "{", "{", "m", "}", "}">>)
  /\ callDeclarations = <<Declaration(<<"m">>, TRUE, Undefined),
                          Declaration(<<"n">>, FALSE, Str(<<"d", "f">>))>>
  /\ processedContent = Str(<<"A", "d", "a", "-", "[", "E", "R", "R", "O", "R", ":", " ", "x", "[", "0", "]", "]", "-", "[", "M", "I", "S", "S", "I", "N", "G", ":", " ", "m", "]">>)
  /\ errorList = <<VariableError(<<"x", "[", "0", "]">>, ReplaceTypeError),
                   RequiredMissingError(<<"m">>)>>


(***************************************************************************)
(* evaluateCondition called on its own: the conditions and mappings of     *)
(* the calls, the call and its return                                      *)
(***************************************************************************)
\* the operands of the helper calls
HelperOperands ==
  {<<"\"", "1", "\"", " ", "1">>,
   <<"1", " ", "\"", "1", "\"">>,
   <<"\"", "a", "\"", " ", "\"", "b", "\"">>,
   <<"5", " ", "3">>,
   <<"3", " ", "3">>,
   <<"3", " ", "5">>}

\* eq "1" 1, ..., lte 3 5, and one helper call in parentheses
HelperConditions ==
  {h \o <<" ">> \o o : h \in HelperNames, o \in HelperOperands}
    \cup {<<"(", "e", "q", " ", "1", " ", "\"", "1", "\"", ")">>}

\* the conditions && and || join
SubConditions ==
  {<<"a">>,
   <<"b">>,
   <<"!", "a">>,
   <<"x", " ", ">", " ", "1">>,
   <<"y", " ", "=", "=", " ", "2">>}

AndText == <<" ", "&", "&", " ">>
OrText == <<" ", "|", "|", " ">>

AndConditions == {p \o AndText \o q : p \in SubConditions, q \in SubConditions}

\* && and || over bare variables, with and without blanks around them
MixedConditions ==
  {<<"a", " ", "|", "|", " ", "b", " ", "&", "&", " ", "c">>,
   <<"a", " ", "&", "&", " ", "b", " ", "|", "|", " ", "c">>,
   <<"a", "|", "|", "b", "&", "&", "c">>,
   <<"a", "&", "&", "b", "|", "|", "c">>,
   <<"a", " ", "|", "|", " ", "b">>,
   <<"c">>}

\* the mappings: a, b, c true or false, x and y numbers
NumberContexts ==
  {Obj((<<"a">> :> a) @@ (<<"b">> :> b) @@ (<<"c">> :> c)
       @@ (<<"x">> :> Num(x)) @@ (<<"y">> :> Num(y)))
     : a \in Flags, b \in Flags, c \in Flags, x \in {1, 2}, y \in {2, 3}}

\* a bare variable, with and without blanks around it, and its negation
BareConditions == {<<"v">>, <<" ", "v", " ">>, <<"!", "v">>}

\* the values a variable can have, one or more of every type
VariableValues ==
  {Undefined, Null, Bool(TRUE), Bool(FALSE), Num(0), Num(1), Num2(5, 1), NaN,
   Str(<<>>), Str(<<"f", "a", "l", "s", "e">>), Str(<<"0">>), Str(<<" ">>), Str(<<"a">>),
   Arr(<<>>), Arr(<<Num(0)>>), Arr(<<Str(<<>>), Null>>),
   Obj(<<>>), Obj(<<"k">> :> Null), Obj(<<"k">> :> Bool(FALSE))}

\* the mappings: v with each of these values, and without v
BareContexts == {Obj(<<"v">> :> value) : value \in VariableValues} \cup {Obj(<<>>)}

\* helper calls with a variable on the left and a quoted literal on the right
EqCode42 == <<"e", "q", " ", "c", "o", "d", "e", " ", "\"", "4", "2", "\"">>
EqCodeTrue == <<"e", "q", " ", "c", "o", "d", "e", " ", "\"", "t", "r", "u", "e", "\"">>
EqCodeAb == <<"e", "q", " ", "c", "o", "d", "e", " ", "\"", "a", "b", "\"">>
CodeConditions == {EqCode42, EqCodeTrue, EqCodeAb}

\* the mappings: code a string or not
CodeValues ==
  {Str(<<"4", "2">>), Num(42), Str(<<"t", "r", "u", "e">>), Bool(TRUE), Str(<<"a", "b">>)}
CodeContexts == {Obj(<<"c", "o", "d", "e">> :> value) : value \in CodeValues}

ConditionCalls ==
  (HelperConditions \X {Obj(<<>>)})
    \cup ((SubConditions \cup AndConditions \cup MixedConditions) \X NumberContexts)
    \cup (BareConditions \X BareContexts)
    \cup (CodeConditions \X CodeContexts)


\* no call of processTemplate is under way
EngineIdle ==
  /\ callTemplate = Str(<<>>)
  /\ callVariables = Obj(<<>>)
  /\ callDeclarations = <<>>
  /\ processedContent = Str(<<>>)
  /\ errorList = <<>>
  /\ warningList = <<>>
  /\ pc = "idle"

\* evaluateCondition(condition, variables) has been called
ConditionInit ==
  /\ EngineIdle
  /\ calledFunction = "evaluateCondition"
  /\ arguments \in ConditionCalls
  /\ returnValue = <<>>
  /\ returned = <<>>
  /\ HookUnmounted

\* the call returns
EvaluateCondition ==
  /\ calledFunction = "evaluateCondition"
  /\ returnValue = <<>>
  /\ returnValue' = <<evaluateCondition(arguments[1], arguments[2])>>
  /\ UNCHANGED <<outsideFunction, calledFunction, arguments>>

ConditionNext == EvaluateCondition

ConditionSpec == ConditionInit /\ [][ConditionNext]_vars

\* evaluateCondition has returned from the call with this condition
Evaluated(condition) ==
  /\ calledFunction = "evaluateCondition"
  /\ returnValue # <<>>
  /\ arguments[1] = condition

\* C12: the helper call `eq "1" 1` evaluates to true, and so does
\* `eq 1 "1"`: a string literal that looks like a number is coerced to
\* the number on whichever side it stands.
C12_EqCoerces ==
  /\ Evaluated(<<"e", "q", " ", "\"", "1", "\"", " ", "1">>) => returnValue[1]
  /\ Evaluated(<<"e", "q", " ", "1", " ", "\"", "1", "\"">>) => returnValue[1]

\* C19: a condition P && Q evaluates to true exactly when P and Q both
\* evaluate to true, for bare variables, negations and comparisons as P
\* and Q.
C19_AndOfParts ==
  \A p \in SubConditions, q \in SubConditions :
    Evaluated(p \o AndText \o q) =>
      returnValue[1] = (evaluateCondition(p, arguments[2])
                          /\ evaluateCondition(q, arguments[2]))

\* C20: an unparenthesized condition over bare variables with && and ||
\* is split on && first, each part then evaluated as an OR: a || b && c
\* is (a OR b) AND c, and a && b || c is a AND (b OR c).
C20_AndSplitFirst ==
  LET A == isTruthy(GetProp(arguments[2], <<"a">>))
      B == isTruthy(GetProp(arguments[2], <<"b">>))
      C == isTruthy(GetProp(arguments[2], <<"c">>))
  IN /\ Evaluated(<<"a", " ", "|", "|", " ", "b", " ", "&", "&", " ", "c">>) \/ Evaluated(<<"a", "|", "|", "b", "&", "&", "c">>)
          => returnValue[1] = ((A \/ B) /\ C)
     /\ Evaluated(<<"a", " ", "&", "&", " ", "b", " ", "|", "|", " ", "c">>) \/ Evaluated(<<"a", "&", "&", "b", "|", "|", "c">>)
          => returnValue[1] = (A /\ (B \/ C))

\* a || b && c has evaluated to false with a true, because c is false
C20_OrUnderAnd ==
  /\ Evaluated(<<"a", " ", "|", "|", " ", "b", " ", "&", "&", " ", "c">>)
  /\ isTruthy(GetProp(arguments[2], <<"a">>))
  /\ ~isTruthy(GetProp(arguments[2], <<"c">>))
  /\ returnValue = <<FALSE>>


(***************************************************************************)
(* processTemplate called again by its caller                              *)
(***************************************************************************)
\* the arguments and the result of the call that has returned
ReturnedCall ==
  [template |-> callTemplate, variables |-> callVariables,
   templateVariables |-> callDeclarations, content |-> processedContent,
   errors |-> errorList, warnings |-> warningList]

\* the caller renders the returned content again, with the same mapping
\* and declarations
Rerender ==
  /\ pc = "returned"
  /\ returned = <<>>
  /\ returned' = <<ReturnedCall>>
  /\ callTemplate' = processedContent
  /\ errorList' = <<>>
  /\ warningList' = <<>>
  /\ pc' = "chains"
  /\ UNCHANGED <<processedContent, callVariables, callDeclarations, functionVars,
               hookVars, loaderVars>>

RerenderNext == Next \/ Rerender

RerenderSpec == Init /\ [][RerenderNext]_vars

\* the second call has returned, the first having returned a string
\* without any {{...}} span
RenderedTwice ==
  /\ Returned
  /\ returned # <<>>
  /\ returned[1].content.t = "string"
  /\ ~Test(SpanPattern, returned[1].content.v)

\* C13: rendering rendered output again changes nothing: when the
\* content of a call holds no directive tag and no placeholder,
\* processTemplate on that content, with the same mapping and
\* declarations, returns the same content, no error and no warning.
C13_Idempotent ==
  RenderedTwice =>
    /\ processedContent = returned[1].content
    /\ errorList = <<>>
    /\ warningList = <<>>

\* a body with blank lines and trailing blanks, rendered twice
C13_CleanedTwice ==
  /\ RenderedTwice
  /\ returned[1].template = Str(<<"\n", "\n", "{", "{", "n", "}", "}", "\n", "\n", "\n", "\n", "B", " ", " ", "\n">>)
  /\ returned[1].content = Str(<<"A", "d", "a", "\n", "\n", "B">>)
  /\ processedContent = Str(<<"A", "d", "a", "\n", "\n", "B">>)


(***************************************************************************)
(* TemplateEngine: extractVariables                                        *)
(***************************************************************************)
\* /\{\{#(?:if|unless)\s+([^}]+)\}\}/g
conditionalPattern ==
  <<Lit(<<"{", "{", "#">>),
    Alt(<<<<Lit(<<"i", "f">>)>>, <<Lit(<<"u", "n", "l", "e", "s", "s">>)>>>>, 0),
    Rep(Space, 1, 0), Rep(NCls({"}"}), 1, 1), Lit(<<"}", "}">>)>>

\* /[<>=!&|]+/g
operatorRunPattern == <<Rep(Cls({"<", ">", "=", "!", "&", "|"}), 1, 0)>>

\* /["']/g
quotePattern == <<One(Cls({"\"", "'"}))>>

\* /\b(?:true|false|null|undefined|\d+(?:\.\d+)?)\b/g
literalPattern ==
  <<WordBoundary,
    Alt(<<<<Lit(<<"t", "r", "u", "e">>)>>, <<Lit(<<"f", "a", "l", "s", "e">>)>>,
          <<Lit(<<"n", "u", "l", "l">>)>>,
          <<Lit(<<"u", "n", "d", "e", "f", "i", "n", "e", "d">>)>>,
          <<Rep(Digit, 1, 0), Opt(<<Lit(<<".">>), Rep(Digit, 1, 0)>>)>>>>, 0),
    WordBoundary>>

\* /\s+/
blanksPattern == <<Rep(Space, 1, 0)>>

\* /^[\d.]+$/
digitsAndDotsPattern == <<Bol, Rep(Cls(Digits \cup {"."}), 1, 0), Eol>>

\* String.prototype.split on a pattern: the texts between the matches ms
RECURSIVE Between(_, _, _)
Between(s, ms, from) ==
  IF ms = <<>> THEN <<SubSeq(s, from, Len(s))>>
  ELSE <<SubSeq(s, from, Head(ms).start - 1)>> \o Between(s, Tail(ms), Head(ms).end)

SplitPattern(re, s) == Between(s, MatchAll(re, s, 1), 1)

\* Array.prototype.filter / SelectSeq with the test as a set of texts
Without(ws, excluded) == SelectSeq(ws, LAMBDA w : w \notin excluded)

\* the words the filter of extractVariablesFromCondition drops
ExcludedWords ==
  {<<"a", "n", "d">>, <<"o", "r">>, <<"n", "o", "t">>} \cup HelperNames

\* the filter of extractVariablesFromCondition
KeptWords(ws) ==
  SelectSeq(ws, LAMBDA w : /\ Len(w) > 0
                           /\ ~Test(digitsAndDotsPattern, w)
                           /\ w \notin ExcludedWords)

\* word.split('.')[0] over the words
Roots(ws) == [j \in 1..Len(ws) |-> SplitChar(ws[j], ".")[1]]

\* extractVariablesFromCondition
extractVariablesFromCondition(condition) ==
  Roots(KeptWords(SplitPattern(blanksPattern,
    ReplaceEvery(literalPattern,
      ReplaceEvery(quotePattern,
        ReplaceEvery(operatorRunPattern, condition, <<" ">>),
        <<" ">>),
      <<" ">>))))

\* variables.add(w) on the Set, as the sequence Array.from gives
Added(names, w) == IF w \in Range(names) THEN names ELSE Append(names, w)

\* the Set after the texts ws were added in order
RECURSIVE InsertionOrder(_)
InsertionOrder(ws) ==
  IF ws = <<>> THEN <<>>
  ELSE Added(InsertionOrder(SubSeq(ws, 1, Len(ws) - 1)), ws[Len(ws)])

\* the first loop of extractVariables\* the first loop of extractVariables: the root name of each placeholder
\* match, the helper names left out
PlaceholderRoots(template, ms) ==
  Without(Roots([j \in 1..Len(ms) |-> Trim(Group(template, ms[j], 1))]), HelperNames)

\* the second loop: the variables of each condition, one after the other
ConditionRoots(template, ms) ==
  Flatten([j \in 1..Len(ms) |->
             extractVariablesFromCondition(Trim(Group(template, ms[j], 1)))])

\* extractVariables
extractVariables(template) ==
  InsertionOrder(
    PlaceholderRoots(template, MatchAll(variablePattern, template, 1))
      \o ConditionRoots(template, MatchAll(conditionalPattern, template, 1)))


\* the calls of extractVariables: placeholders, then one directive, with
\* the names each piece refers to
PlaceholderPieces ==
  {[text |-> <<>>, names |-> {}],
   [text |-> <<"{", "{", "u", "s", "e", "r", "_", "n", "a", "m", "e", "}", "}", " ">>, names |-> {<<"u", "s", "e", "r", "_", "n", "a", "m", "e">>}],
   [text |-> <<"{", "{", " ", "u", "s", "e", "r", ".", "n", "a", "m", "e", " ", "}", "}", "{", "{", "m", "}", "}">>, names |-> {<<"u", "s", "e", "r">>, <<"m">>}],
   [text |-> <<"{", "{", "i", "t", "e", "m", "s", "[", "0", "]", "}", "}">>, names |-> {<<"i", "t", "e", "m", "s">>}]}

ConditionPieces ==
  {[text |-> <<"i", "s", "_", "a", "d", "m", "i", "n">>, names |-> {<<"i", "s", "_", "a", "d", "m", "i", "n">>}],
   [text |-> <<"a", " ", "&", "&", " ", "!", "b">>, names |-> {<<"a">>, <<"b">>}],
   [text |-> <<"a", " ", "|", "|", " ", "b">>, names |-> {<<"a">>, <<"b">>}],
   [text |-> <<"x", " ", ">", " ", "1">>, names |-> {<<"x">>}],
   [text |-> <<"x", " ", "=", "=", " ", "2", ".", "5">>, names |-> {<<"x">>}],
   [text |-> <<"e", "q", " ", "a", " ", "1">>, names |-> {<<"a">>}],
   [text |-> <<"n", "e", " ", "r", "o", "l", "e", " ", "\"", "a", "d", "m", "i", "n", "\"">>, names |-> {<<"r", "o", "l", "e">>}],
   [text |-> <<"g", "t", " ", "u", "s", "e", "r", ".", "a", "g", "e", " ", "1", "8">>, names |-> {<<"u", "s", "e", "r">>}],
   [text |-> <<"(", "l", "t", "e", " ", "n", " ", "5", ")">>, names |-> {<<"n">>}],
   [text |-> <<"a", " ", "a", "n", "d", " ", "n", "o", "t", " ", "b">>, names |-> {<<"a">>, <<"b">>}],
   [text |-> <<"f", "l", "a", "g", " ", "=", "=", " ", "t", "r", "u", "e">>, names |-> {<<"f", "l", "a", "g">>}],
   [text |-> <<"v", " ", "!", "=", " ", "n", "u", "l", "l">>, names |-> {<<"v">>}],
   [text |-> <<"s", " ", "=", "=", "=", " ", "'", "o", "n", "'">>, names |-> {<<"s">>}],
   [text |-> <<"u", "s", "e", "r", ".", "p", "r", "o", "f", "i", "l", "e", ".", "n", "a", "m", "e">>, names |-> {<<"u", "s", "e", "r">>}]}

\* the directive around a condition: if, if with else, unless
DirectiveForms == {"if", "ifElse", "unless"}

Directive(form, c) ==
  CASE form = "if" -> IfText(c) \o <<".", ".", ".">> \o EndIfTag
    [] form = "ifElse" -> IfText(c) \o <<"X">> \o ElseTag \o <<"Y">> \o EndIfTag
    [] form = "unless" -> UnlessText(c) \o <<"X">> \o EndUnlessText

ExtractCases ==
  {[template |-> p.text \o Directive(form, c.text), names |-> p.names \cup c.names] :
     p \in PlaceholderPieces, c \in ConditionPieces, form \in DirectiveForms}

\* extractVariables(template) has been called
ExtractInit ==
  /\ EngineIdle
  /\ calledFunction = "extractVariables"
  /\ arguments \in {<<case.template>> : case \in ExtractCases}
  /\ returnValue = <<>>
  /\ returned = <<>>
  /\ HookUnmounted

\* the call returns
ExtractVariables ==
  /\ calledFunction = "extractVariables"
  /\ returnValue = <<>>
  /\ returnValue' = <<extractVariables(arguments[1])>>
  /\ UNCHANGED <<outsideFunction, calledFunction, arguments>>

ExtractNext == ExtractVariables

ExtractSpec == ExtractInit /\ [][ExtractNext]_vars

\* C14: extractVariables returns exactly the root names the placeholders
\* and the directive conditions of the body refer to: no helper name, no
\* keyword (and, or, not, else), no literal, no content of a string
\* literal and no punctuation.
C14_ExactNames ==
  calledFunction = "extractVariables" /\ returnValue # <<>> =>
    \A case \in ExtractCases :
      arguments[1] = case.template => Range(returnValue[1]) = case.names


(***************************************************************************)
(* TemplateEngine: validateTemplateSyntax                                  *)
(***************************************************************************)
\* /\{\{#if/g, /\{\{\/if\}\}/g, /\{\{#unless/g, /\{\{\/unless\}\}/g
ifOpenPattern == <<Lit(<<"{", "{", "#", "i", "f">>)>>
ifEndPattern == <<Lit(EndIfTag)>>
unlessOpenPattern == <<Lit(<<"{", "{", "#", "u", "n", "l", "e", "s", "s">>)>>
unlessEndPattern == <<Lit(EndUnlessText)>>

\* /\{\{[^}]*\{\{|\}\}[^{]*\}\}/g
malformedPattern ==
  <<Alt(<<<<Lit(<<"{", "{">>), Rep(NCls({"}"}), 0, 0), Lit(<<"{", "{">>)>>,
          <<Lit(<<"}", "}">>), Rep(NCls({"{"}), 0, 0), Lit(<<"}", "}">>)>>>>, 0)>>

\* /\{\{#(?:if|unless)[^}]*$/gm
unclosedPattern ==
  <<Lit(<<"{", "{", "#">>),
    Alt(<<<<Lit(<<"i", "f">>)>>, <<Lit(<<"u", "n", "l", "e", "s", "s">>)>>>>, 0),
    Rep(NCls({"}"}), 0, 0), EolM>>

\* (template.match(re) || []).length for a pattern with the g flag
MatchCount(re, template) == Len(MatchAll(re, template, 1))

UnmatchedIfError == "Unmatched {{#if}} blocks"
UnmatchedUnlessError == "Unmatched {{#unless}} blocks"
MalformedError == "Malformed variable syntax detected"
UnclosedError == "Unclosed conditional blocks detected"

\* errors.push(message) when the check fails
Pushed1(failed, message) == IF failed THEN <<message>> ELSE <<>>

\* the returned object
Validation(errors) == [valid |-> Len(errors) = 0, errors |-> errors]

\* a validation that reports openings without closing only
validateTemplateSyntax_OpeningsOnly(template) ==
  Validation(
    Pushed1(MatchCount(ifOpenPattern, template) > MatchCount(ifEndPattern, template),
            UnmatchedIfError)
    \o Pushed1(MatchCount(unlessOpenPattern, template)
                 # MatchCount(unlessEndPattern, template),
               UnmatchedUnlessError)
    \o Pushed1(Test(malformedPattern, template), MalformedError)
    \o Pushed1(Test(unclosedPattern, template), UnclosedError))

\* validateTemplateSyntax
validateTemplateSyntax(template) ==
  Validation(
    Pushed1(MatchCount(ifOpenPattern, template) # MatchCount(ifEndPattern, template),
            UnmatchedIfError)
    \o Pushed1(MatchCount(unlessOpenPattern, template)
                 # MatchCount(unlessEndPattern, template),
               UnmatchedUnlessError)
    \o Pushed1(Test(malformedPattern, template), MalformedError)
    \o Pushed1(Test(unclosedPattern, template), UnclosedError))

\* the bodies validated: up to MaxTokens pieces, well formed ones (a
\* tag, a closed unless block, a placeholder, text, a line break) and
\* broken ones (an opening tag without its braces, stray braces)
MaxTokens == 3

WellFormedTokens ==
  {IfText(<<"a">>), EndIfTag, Unless(<<>>, <<"a">>, <<"X">>, <<>>),
   Placeholder(<<"n">>), <<"X">>, <<"\n">>}

BrokenTokens == {<<"{", "{", "#", "i", "f", " ", "a">>, <<"}", "}">>, UnlessText(<<"b">>)}

TokenLists(tokens) == UNION {[1..k -> tokens] : k \in 1..MaxTokens}

\* how many of the pieces ts are the piece token
Occurrences(ts, token) == Cardinality({j \in DOMAIN ts : ts[j] = token})

ValidatedBodies == {Flatten(ts) : ts \in TokenLists(WellFormedTokens \cup BrokenTokens)}

\* validateTemplateSyntax(template) has been called
ValidateInit ==
  /\ EngineIdle
  /\ calledFunction = "validateTemplateSyntax"
  /\ arguments \in {<<body>> : body \in ValidatedBodies}
  /\ returnValue = <<>>
  /\ returned = <<>>
  /\ HookUnmounted

\* the call returns
ValidateTemplateSyntax ==
  /\ calledFunction = "validateTemplateSyntax"
  /\ returnValue = <<>>
  /\ returnValue' = <<validateTemplateSyntax(arguments[1])>>
  /\ UNCHANGED <<outsideFunction, calledFunction, arguments>>

ValidateNext == ValidateTemplateSyntax

ValidateSpec == ValidateInit /\ [][ValidateNext]_vars

Validated == calledFunction = "validateTemplateSyntax" /\ returnValue # <<>>

\* C15: for a body that is well formed but for the number of its {{#if
\* openings differing from the number of its {{/if}} closings,
\* validateTemplateSyntax returns valid = false and one error, the
\* unmatched-if error; and every result has valid true exactly when its
\* errors are empty.
C15_UnmatchedIf ==
  Validated =>
    /\ returnValue[1].valid = (returnValue[1].errors = <<>>)
    /\ \A ts \in TokenLists(WellFormedTokens) :
         /\ arguments[1] = Flatten(ts)
         /\ Occurrences(ts, IfText(<<"a">>)) # Occurrences(ts, EndIfTag)
         => returnValue[1] = [valid |-> FALSE, errors |-> <<UnmatchedIfError>>]

\* one {{#if}} without its {{/if}} has been reported
C15_OneOpening ==
  /\ Validated
  /\ arguments[1] = IfText(<<"a">>) \o <<"X">>
  /\ returnValue[1] = [valid |-> FALSE, errors |-> <<UnmatchedIfError>>]


(***************************************************************************)
(* Several calls of processTemplate on the one instance getInstance gives  *)
(* (the class has no field but the static instance)                        *)
(***************************************************************************)
\* a behaviour makes up to MaxCalls calls
MaxCalls == 3

\* the calls made one after the other: calls that record errors and
\* warnings, a chain, and a template that is no string
SessionCalls ==
  {<<<<Str(Placeholder(<<"n">>)), Obj(<<"x">> :> Null)>>,
     <<Declaration(<<"n">>, TRUE, Undefined)>>>>,
   <<<<Str(Placeholder(<<"n">>)), Obj(<<"x">> :> Null)>>,
     <<Declaration(<<"n">>, FALSE, Str(<<"d", "f">>))>>>>,
   <<<<Str(Placeholder(<<"n">>)), Obj(<<"n">> :> Str(<<"A", "d", "a">>))>>, <<>>>>,
   <<<<Str(<<"{", "{", "x", "[", "0", "]", "}", "}", " ", "{", "{", "n", "}", "}">>), Obj(<<"x">> :> Null)>>, <<>>>>,
   <<<<Str(Chain(<<"a">>, <<<<"b">>>>, TRUE)),
       Obj((<<"a">> :> Bool(FALSE)) @@ (<<"b">> :> Bool(TRUE)))>>, <<>>>>,
   <<<<Undefined, Obj(<<>>)>>, <<>>>>}

\* a session whose calls keep the errors of the calls before them
SessionCall_ErrorsKept ==
  /\ pc \in {"idle", "returned"}
  /\ Len(returned) + (IF pc = "returned" THEN 1 ELSE 0) < MaxCalls
  /\ returned' = IF pc = "returned" THEN Append(returned, ReturnedCall) ELSE returned
  /\ \E call \in SessionCalls :
       /\ callTemplate' = call[1][1]
       /\ callVariables' = call[1][2]
       /\ callDeclarations' = call[2]
       /\ processedContent' = call[1][1]
  /\ errorList' = errorList
  /\ warningList' = <<>>
  /\ pc' = "chains"
  /\ UNCHANGED <<functionVars, hookVars, loaderVars>>

\* processTemplate is entered, for the first time or after a call that
\* returned
SessionCall ==
  /\ pc \in {"idle", "returned"}
  /\ Len(returned) + (IF pc = "returned" THEN 1 ELSE 0) < MaxCalls
  /\ returned' = IF pc = "returned" THEN Append(returned, ReturnedCall) ELSE returned
  /\ \E call \in SessionCalls :
       /\ callTemplate' = call[1][1]
       /\ callVariables' = call[1][2]
       /\ callDeclarations' = call[2]
       /\ processedContent' = call[1][1]
  /\ errorList' = <<>>
  /\ warningList' = <<>>
  /\ pc' = "chains"
  /\ UNCHANGED <<functionVars, hookVars, loaderVars>>

SessionNext ==
  \/ SessionCall
  \/ ResolveChains
  \/ ResolveIfElse
  \/ ResolveIf
  \/ ResolveUnless
  \/ SubstituteVariables
  \/ Cleanup

SessionSpec == Init /\ [][SessionNext]_vars

\* the call that has returned had the arguments of the earlier call e
SameArguments(e) ==
  /\ e.template = callTemplate
  /\ e.variables = callVariables
  /\ e.templateVariables = callDeclarations

\* a call that has returned gave what every earlier call with the same
\* arguments gave
SameResults ==
  Returned =>
    \A j \in DOMAIN returned :
      SameArguments(returned[j]) =>
        /\ returned[j].content = processedContent
        /\ returned[j].errors = errorList
        /\ returned[j].warnings = warningList

\* a step inside a call leaves the mapping and the declarations as the
\* caller passed them
ArgumentsKept ==
  pc \notin {"idle", "returned"} =>
    /\ callVariables' = callVariables
    /\ callDeclarations' = callDeclarations

\* C16: processTemplate is a pure function of its arguments: two calls
\* with equal body, mapping and declarations return equal content, errors
\* and warnings whatever calls were made on the instance in between, and
\* a call leaves the mapping and the declarations unchanged.
C16_Pure == []SameResults /\ [][ArgumentsKept]_vars

\* a call has returned the errors of the same call made two calls before
C16_SameAfterAnother ==
  /\ Returned
  /\ Len(returned) = 2
  /\ SameArguments(returned[1])
  /\ ~SameArguments(returned[2])
  /\ errorList # <<>>
  /\ returned[1].errors = errorList


(***************************************************************************)
(* The template loaders: parsePromptyFile (McpTemplateLoader) and          *)
(* convertApiTemplateToPromptTemplate (TemplateLoader).  yaml.load is the  *)
(* library's: a document is given as its parts around '---', the second    *)
(* of them as the mapping yaml.load returns for it.                        *)
(***************************************************************************)
\* a || b
OrDefault(value, default) == IF JsTruthy(value) THEN value ELSE default

\* new Date(value), and new Date()
Date(value) == [t |-> "date", of |-> value]
Now == [t |-> "date", of |-> Undefined]

\* the defaults written in both functions
DefaultModel ==
  Obj((<<"p", "r", "e", "f", "e", "r", "r", "e", "d">> :> Str(<<"g", "p", "t", "-", "4", "o", "-", "m", "i", "n", "i">>))
      @@ (<<"t", "e", "m", "p", "e", "r", "a", "t", "u", "r", "e">> :> Num2(7, 1))
      @@ (<<"m", "a", "x", "_", "t", "o", "k", "e", "n", "s">> :> Num(1000)))
DefaultMetrics ==
  Obj((<<"u", "s", "a", "g", "e", "_", "c", "o", "u", "n", "t">> :> Num(0))
      @@ (<<"a", "v", "g", "_", "r", "e", "s", "p", "o", "n", "s", "e", "_", "t", "i", "m", "e">> :> Num(0))
      @@ (<<"s", "u", "c", "c", "e", "s", "s", "_", "r", "a", "t", "e">> :> Num(1)))
DefaultSecurity ==
  Obj((<<"i", "n", "j", "e", "c", "t", "i", "o", "n", "_", "p", "r", "o", "t", "e", "c", "t", "e", "d">> :> Bool(TRUE))
      @@ (<<"s", "a", "n", "i", "t", "i", "z", "e", "_", "i", "n", "p", "u", "t", "s">> :> Bool(TRUE)))

\* the fields both functions fill the same way from their source object
SharedFields(source) ==
  (<<"d", "e", "s", "c", "r", "i", "p", "t", "i", "o", "n">> :> OrDefault(GetProp(source, <<"d", "e", "s", "c", "r", "i", "p", "t", "i", "o", "n">>), Str(<<>>)))
  @@ (<<"v", "e", "r", "s", "i", "o", "n">> :> OrDefault(GetProp(source, <<"v", "e", "r", "s", "i", "o", "n">>), Str(<<"1", ".", "0", ".", "0">>)))
  @@ (<<"a", "u", "t", "h", "o", "r", "s">> :> OrDefault(GetProp(source, <<"a", "u", "t", "h", "o", "r", "s">>), Arr(<<Str(<<"U", "n", "k", "n", "o", "w", "n">>)>>)))
  @@ (<<"c", "a", "t", "e", "g", "o", "r", "y">> :> OrDefault(GetProp(source, <<"c", "a", "t", "e", "g", "o", "r", "y">>), Str(<<"g", "e", "n", "e", "r", "a", "l">>)))
  @@ (<<"t", "a", "g", "s">> :> OrDefault(GetProp(source, <<"t", "a", "g", "s">>), Arr(<<>>)))
  @@ (<<"m", "o", "d", "e", "l">> :> OrDefault(GetProp(source, <<"m", "o", "d", "e", "l">>), DefaultModel))
  @@ (<<"v", "a", "r", "i", "a", "b", "l", "e", "s">> :> OrDefault(GetProp(source, <<"v", "a", "r", "i", "a", "b", "l", "e", "s">>), Arr(<<>>)))
  @@ (<<"s", "a", "m", "p", "l", "e">> :> OrDefault(GetProp(source, <<"s", "a", "m", "p", "l", "e">>), Obj(<<>>)))
  @@ (<<"t", "e", "s", "t", "_", "c", "a", "s", "e", "s">> :> OrDefault(GetProp(source, <<"t", "e", "s", "t", "_", "c", "a", "s", "e", "s">>), Arr(<<>>)))
  @@ (<<"m", "e", "t", "r", "i", "c", "s">> :> OrDefault(GetProp(source, <<"m", "e", "t", "r", "i", "c", "s">>), DefaultMetrics))
  @@ (<<"s", "e", "c", "u", "r", "i", "t", "y">> :> OrDefault(GetProp(source, <<"s", "e", "c", "u", "r", "i", "t", "y">>), DefaultSecurity))

\* new Date(value) when value is truthy, new Date() otherwise
DateOrNow(value) == IF JsTruthy(value) THEN Date(value) ELSE Now

\* the position of the last "/" of a path, 0 without one
LastSlash(p) ==
  IF \E j \in 1..Len(p) : p[j] = "/"
  THEN CHOOSE j \in 1..Len(p) : p[j] = "/" /\ \A i \in (j + 1)..Len(p) : p[i] # "/"
  ELSE 0

\* text without the suffix it ends with
WithoutSuffix(text, suffix) ==
  IF EndsWith(text, suffix) /\ Len(text) > Len(suffix)
  THEN SubSeq(text, 1, Len(text) - Len(suffix)) ELSE text

\* path.basename(filePath, '.prompty')
Basename(filePath) ==
  WithoutSuffix(SubSeq(filePath, LastSlash(filePath) + 1, Len(filePath)),
                <<".", "p", "r", "o", "m", "p", "t", "y">>)

\* Array.prototype.join('---')
RECURSIVE JoinDashes(_)
JoinDashes(ts) ==
  IF ts = <<>> THEN <<>>
  ELSE IF Len(ts) = 1 THEN ts[1]
  ELSE ts[1] \o <<"-", "-", "-">> \o JoinDashes(Tail(ts))

\* the object parsePromptyFile returns
PromptyTemplate(frontmatter, templateContent, filePath) ==
  Obj((<<"n", "a", "m", "e">> :> OrDefault(GetProp(frontmatter, <<"n", "a", "m", "e">>), Str(Basename(filePath))))
      @@ (<<"c", "r", "e", "a", "t", "e", "d">> :> DateOrNow(GetProp(frontmatter, <<"c", "r", "e", "a", "t", "e", "d">>)))
      @@ (<<"u", "p", "d", "a", "t", "e", "d">> :> DateOrNow(GetProp(frontmatter, <<"u", "p", "d", "a", "t", "e", "d">>)))
      @@ (<<"c", "o", "n", "t", "e", "n", "t">> :> Str(templateContent))
      @@ SharedFields(frontmatter))

\* parsePromptyFile, parts being content.split('---') with the text of
\* each part and, for parts[1], what yaml.load makes of it; fewer than
\* three parts throw
parsePromptyFile(parts, filePath) ==
  IF Len(parts) < 3 THEN Throw(<<"I", "n", "v", "a", "l", "i", "d", " ", ".", "p", "r", "o", "m", "p", "t", "y", " ", "f", "i", "l", "e", " ", "f", "o", "r", "m", "a", "t">>)
  ELSE PromptyTemplate(parts[2],
                       Trim(JoinDashes([i \in 1..(Len(parts) - 2) |-> parts[i + 2].v])),
                       filePath)

\* convertApiTemplateToPromptTemplate
convertApiTemplateToPromptTemplate(apiTemplate) ==
  Obj((<<"n", "a", "m", "e">> :> OrDefault(GetProp(apiTemplate, <<"n", "a", "m", "e">>), Str(<<"U", "n", "n", "a", "m", "e", "d", " ", "T", "e", "m", "p", "l", "a", "t", "e">>)))
      @@ (<<"c", "r", "e", "a", "t", "e", "d">> :> Date(OrDefault(GetProp(apiTemplate, <<"c", "r", "e", "a", "t", "e", "d">>), Str(<<"2", "0", "2", "4", "-", "0", "1", "-", "0", "1">>))))
      @@ (<<"u", "p", "d", "a", "t", "e", "d">> :> Date(OrDefault(GetProp(apiTemplate, <<"u", "p", "d", "a", "t", "e", "d">>), Str(<<"2", "0", "2", "4", "-", "0", "1", "-", "0", "1">>))))
      @@ (<<"c", "o", "n", "t", "e", "n", "t">> :> OrDefault(GetProp(apiTemplate, <<"c", "o", "n", "t", "e", "n", "t">>), Str(<<>>)))
      @@ SharedFields(apiTemplate))


\* metadata blocks: every optional field written or left out
WrittenModels ==
  {Obj((<<"p", "r", "e", "f", "e", "r", "r", "e", "d">> :> Str(<<"g", "p", "t", "-", "4", "o">>))
       @@ (<<"t", "e", "m", "p", "e", "r", "a", "t", "u", "r", "e">> :> Num2(2, 1))
       @@ (<<"m", "a", "x", "_", "t", "o", "k", "e", "n", "s">> :> Num(50))),
   Obj((<<"p", "r", "e", "f", "e", "r", "r", "e", "d">> :> Str(<<"g", "p", "t", "-", "4", "o">>)))}
WrittenSecurity ==
  Obj((<<"i", "n", "j", "e", "c", "t", "i", "o", "n", "_", "p", "r", "o", "t", "e", "c", "t", "e", "d">> :> Bool(FALSE))
      @@ (<<"s", "a", "n", "i", "t", "i", "z", "e", "_", "i", "n", "p", "u", "t", "s">> :> Bool(FALSE)))
WrittenMetrics ==
  Obj((<<"u", "s", "a", "g", "e", "_", "c", "o", "u", "n", "t">> :> Num(3))
      @@ (<<"a", "v", "g", "_", "r", "e", "s", "p", "o", "n", "s", "e", "_", "t", "i", "m", "e">> :> Num(20))
      @@ (<<"s", "u", "c", "c", "e", "s", "s", "_", "r", "a", "t", "e">> :> Num2(5, 1)))
WrittenVariables ==
  Arr(<<Obj((<<"n", "a", "m", "e">> :> Str(<<"q", "u", "e", "s", "t", "i", "o", "n">>))
           @@ (<<"t", "y", "p", "e">> :> Str(<<"s", "t", "r", "i", "n", "g">>))
           @@ (<<"r", "e", "q", "u", "i", "r", "e", "d">> :> Bool(TRUE)))>>)
MetadataBlocks ==
  {Obj(n @@ v @@ c @@ m @@ s @@ u @@ d) :
     n \in {<<>>} \cup {(<<"n", "a", "m", "e">> :> v) : v \in {Str(<<"B", "a", "s", "i", "c", " ", "C", "h", "a", "t">>)}},
     v \in {<<>>} \cup {(<<"v", "e", "r", "s", "i", "o", "n">> :> v) : v \in {Str(<<"2", ".", "1", ".", "0">>), Str(<<>>)}},
     c \in {<<>>} \cup {(<<"c", "a", "t", "e", "g", "o", "r", "y">> :> v) : v \in {Str(<<"c", "u", "s", "t", "o", "m">>), Str(<<"t", "e", "s", "t", "i", "n", "g">>)}},
     m \in {<<>>} \cup {(<<"m", "o", "d", "e", "l">> :> v) : v \in WrittenModels},
     s \in {<<>>} \cup {(<<"s", "e", "c", "u", "r", "i", "t", "y">> :> v) : v \in {WrittenSecurity}},
     u \in {<<>>} \cup {(<<"m", "e", "t", "r", "i", "c", "s">> :> v) : v \in {WrittenMetrics}},
     d \in {<<>>} \cup {(<<"v", "a", "r", "i", "a", "b", "l", "e", "s">> :> v) : v \in {WrittenVariables}}}

\* the parts of a document after its metadata block
ContentParts ==
  {<<Str(<<"\n", "H", "e", "l", "l", "o", " ", "{", "{", "q", "u", "e", "s", "t", "i", "o", "n", "}", "}", "\n">>)>>,
   <<Str(<<"\n", "s", "y", "s", "t", "e", "m", ":", "\n">>), Str(<<"\n", "u", "s", "e", "r", ":", " ", "{", "{", "q", "u", "e", "s", "t", "i", "o", "n", "}", "}">>)>>}
PromptyPath == <<"p", "r", "o", "m", "p", "t", "s", "/", "b", "a", "s", "i", "c", "-", "c", "h", "a", "t", ".", "p", "r", "o", "m", "p", "t", "y">>

\* documents split at '---', with and without a metadata block
PromptyCalls ==
  {<<<<Str(<<>>), block>> \o rest, PromptyPath>> :
     block \in MetadataBlocks, rest \in ContentParts}
  \cup {<<<<Str(<<"H", "e", "l", "l", "o", " ", "{", "{", "q", "u", "e", "s", "t", "i", "o", "n", "}", "}">>)>>, PromptyPath>>,
        <<<<Str(<<"n", "a", "m", "e", ":", " ", "x", "\n">>), Str(<<"\n", "H", "e", "l", "l", "o">>)>>, PromptyPath>>}
ApiCalls ==
  {<<Obj(block.props @@ c)>> :
     block \in MetadataBlocks,
     c \in {<<>>} \cup {(<<"c", "o", "n", "t", "e", "n", "t">> :> v) : v \in {Str(<<"H", "e", "l", "l", "o", " ", "{", "{", "q", "u", "e", "s", "t", "i", "o", "n", "}", "}">>)}}}

\* one of the two conversions has been called
LoaderInit ==
  /\ EngineIdle
  /\ \/ calledFunction = "parsePromptyFile" /\ arguments \in PromptyCalls
     \/ calledFunction = "convertApiTemplateToPromptTemplate" /\ arguments \in ApiCalls
  /\ returnValue = <<>>
  /\ returned = <<>>
  /\ HookUnmounted

\* parsePromptyFile returns or throws
ParsePromptyFile ==
  /\ calledFunction = "parsePromptyFile"
  /\ returnValue = <<>>
  /\ returnValue' = <<parsePromptyFile(arguments[1], arguments[2])>>
  /\ UNCHANGED <<outsideFunction, calledFunction, arguments>>

\* convertApiTemplateToPromptTemplate returns
ConvertApiTemplateToPromptTemplate ==
  /\ calledFunction = "convertApiTemplateToPromptTemplate"
  /\ returnValue = <<>>
  /\ returnValue' = <<convertApiTemplateToPromptTemplate(arguments[1])>>
  /\ UNCHANGED <<outsideFunction, calledFunction, arguments>>

LoaderNext == ParsePromptyFile \/ ConvertApiTemplateToPromptTemplate

LoaderSpec == LoaderInit /\ [][LoaderNext]_vars

\* a conversion has returned a template
Converted ==
  /\ calledFunction \in {"parsePromptyFile", "convertApiTemplateToPromptTemplate"}
  /\ returnValue # <<>>
  /\ returnValue[1].t = "object"

\* the metadata the returned template was made from
Metadata ==
  IF calledFunction = "parsePromptyFile" THEN arguments[1][2] ELSE arguments[1]

\* the metadata leave this field out
Omitted(field) == ~HasProp(Metadata, field)

\* the returned template has this value in this field (of this block)
Field(field) == GetProp(returnValue[1], field)
SubField(block, field) == GetProp(GetProp(returnValue[1], block), field)

\* C17: a template made from metadata that omit an optional field has the
\* documented default in it (version 1.0.0, category custom, model
\* temperature 0.7 and max_tokens 1000, both security flags true, metrics
\* usage_count 0 and success_rate 1.0), and name, version, category and
\* the variable declarations that are written are returned as written.
C17_DocumentedDefaults ==
  Converted =>
    /\ Omitted(<<"v", "e", "r", "s", "i", "o", "n">>) => Field(<<"v", "e", "r", "s", "i", "o", "n">>) = Str(<<"1", ".", "0", ".", "0">>)
    /\ Omitted(<<"c", "a", "t", "e", "g", "o", "r", "y">>) => Field(<<"c", "a", "t", "e", "g", "o", "r", "y">>) = Str(<<"c", "u", "s", "t", "o", "m">>)
    /\ Omitted(<<"m", "o", "d", "e", "l">>) =>
         /\ SubField(<<"m", "o", "d", "e", "l">>, <<"t", "e", "m", "p", "e", "r", "a", "t", "u", "r", "e">>) = Num2(7, 1)
         /\ SubField(<<"m", "o", "d", "e", "l">>, <<"m", "a", "x", "_", "t", "o", "k", "e", "n", "s">>) = Num(1000)
    /\ Omitted(<<"s", "e", "c", "u", "r", "i", "t", "y">>) =>
         /\ SubField(<<"s", "e", "c", "u", "r", "i", "t", "y">>, <<"i", "n", "j", "e", "c", "t", "i", "o", "n", "_", "p", "r", "o", "t", "e", "c", "t", "e", "d">>) = Bool(TRUE)
         /\ SubField(<<"s", "e", "c", "u", "r", "i", "t", "y">>, <<"s", "a", "n", "i", "t", "i", "z", "e", "_", "i", "n", "p", "u", "t", "s">>) = Bool(TRUE)
    /\ Omitted(<<"m", "e", "t", "r", "i", "c", "s">>) =>
         /\ SubField(<<"m", "e", "t", "r", "i", "c", "s">>, <<"u", "s", "a", "g", "e", "_", "c", "o", "u", "n", "t">>) = Num(0)
         /\ SubField(<<"m", "e", "t", "r", "i", "c", "s">>, <<"s", "u", "c", "c", "e", "s", "s", "_", "r", "a", "t", "e">>) = Num(1)
    /\ \A field \in {<<"n", "a", "m", "e">>, <<"v", "e", "r", "s", "i", "o", "n">>, <<"c", "a", "t", "e", "g", "o", "r", "y">>, <<"v", "a", "r", "i", "a", "b", "l", "e", "s">>} :
         ~Omitted(field) => Field(field) = GetProp(Metadata, field)


(***************************************************************************)
(* The useMcp hook: its state, the operations it returns, and the          *)
(* requests makeMcpRequest posts.  An operation runs from its call to its  *)
(* first await in one step and from the settling of a request to the next  *)
(* await or to its end in one step, as the event loop runs it.             *)
(***************************************************************************)
MaxOperations == 2   \* operations the caller has under way at once
MaxTime == 1         \* the last value of Date.now()

\* the two kinds of argument updateState is called with
ObjectUpdate(props) == [kind |-> "object", props |-> props]
FunctionUpdate(name) == [kind |-> "function", name |-> name]

\* { ...x }: the own enumerable properties of x; a function has none
Spread(x) == IF x.kind = "object" THEN x.props ELSE <<>>

\* updateState(updates): setState(prev => ({ ...prev, ...updates }))
updateState(prev, updates) == Spread(updates) @@ prev

\* setError(error)
setError(prev, error) == updateState(prev, ObjectUpdate([error |-> error, loading |-> FALSE]))

\* the request makeMcpRequest builds, pending until it settles
Request(method) == [id |-> now, method |-> method, settled |-> "pending"]

\* makeMcpRequest up to its fetch: the history entry is handed to
\* updateState inside a function
Posted(prev) == updateState(prev, FunctionUpdate("append historyEntry"))

\* how a request settles: with a result, with a JSON-RPC error, or with a
\* response that is not ok (a rejected fetch takes the same path)
Settlements == {"result", "error", "failed"}

\* makeMcpRequest from the settling of its fetch on: after response.json()
\* the response is handed over, for result.error the error, and in the
\* catch block, which the throw of the try block reaches as well, the
\* error message
Settled(prev, settlement) ==
  CASE settlement = "result" -> updateState(prev, FunctionUpdate("set response"))
    [] settlement = "error" ->
         updateState(updateState(updateState(prev, FunctionUpdate("set response")),
                                 FunctionUpdate("set error")),
                     FunctionUpdate("set error message"))
    [] OTHER -> updateState(prev, FunctionUpdate("set error message"))

\* the message of the Error makeMcpRequest throws
ErrorMessage(settlement) ==
  IF settlement = "error" THEN Str(<<"M", "e", "t", "h", "o", "d", " ", "n", "o", "t", " ", "f", "o", "u", "n", "d">>)
  ELSE Str(<<"H", "T", "T", "P", " ", "5", "0", "0", ":", " ", "I", "n", "t", "e", "r", "n", "a", "l", " ", "S", "e", "r", "v", "e", "r", " ", "E", "r", "r", "o", "r">>)

\* the operations that set the loading flag, and the method of each
LoadingMethod ==
  [callTool |-> "tools/call", getPrompt |-> "prompts/get",
   listResources |-> "resources/list",
   listResourceTemplates |-> "resources/templates/list",
   readResource |-> "resources/read"]

\* the operations that report a failure with console.warn only
QuietMethod ==
  [getServerInfo |-> "initialize", refreshTools |-> "tools/list",
   refreshPrompts |-> "prompts/list"]

\* what a list request results in
Listed == <<"item">>
ServerInfo == [name |-> "server"]

\* an operation under way and the requests it awaits
Operation(name, methods) ==
  [name |-> name, requests |-> [j \in 1..Len(methods) |-> Request(methods[j])]]

\* refreshAll(): its four operations start in the same turn
RefreshAllOperations ==
  <<Operation("refreshTools", <<"tools/list">>),
    Operation("refreshPrompts", <<"prompts/list">>),
    Operation("refreshResources", <<"resources/list", "resources/templates/list">>),
    Operation("getServerInfo", <<"initialize">>)>>

\* every makeMcpRequest of the operations hands its entry over
RECURSIVE PostedAll(_, _)
PostedAll(prev, count) ==
  IF count = 0 THEN prev ELSE PostedAll(Posted(prev), count - 1)

\* the requests the operations under way have posted
RECURSIVE RequestsOf(_)
RequestsOf(ops) ==
  IF ops = <<>> THEN <<>> ELSE ops[1].requests \o RequestsOf(Tail(ops))

\* the sequence without its entry at i
RemoveAt(seq, i) == SubSeq(seq, 1, i - 1) \o SubSeq(seq, i + 1, Len(seq))

\* Date.now() moves on
Tick ==
  /\ now < MaxTime
  /\ now' = now + 1
  /\ UNCHANGED <<state, operations, outsideHook>>

\* connect(), which the mount effect calls first; the caller calls it
\* again only when nothing is under way
Connect ==
  /\ operations = <<>>
  /\ state' = Posted(updateState(state, ObjectUpdate([loading |-> TRUE, error |-> Null])))
  /\ operations' = Append(operations, Operation("connect", <<"tools/list">>))
  /\ UNCHANGED <<now, outsideHook>>

\* the hook has been mounted: its effect has called connect()
Mounted == state # initialState \/ operations # <<>>

\* callTool, getPrompt, listResources, listResourceTemplates, readResource
StartLoading ==
  /\ Mounted
  /\ Len(operations) < MaxOperations
  /\ \E name \in DOMAIN LoadingMethod :
       operations' = Append(operations, Operation(name, <<LoadingMethod[name]>>))
  /\ state' = Posted(updateState(state, ObjectUpdate([loading |-> TRUE, error |-> Null])))
  /\ UNCHANGED <<now, outsideHook>>

\* refreshAll(), called by the caller when nothing is under way; the
\* caller reaches refreshTools, refreshPrompts, refreshResources and
\* getServerInfo through it and through connect()
RefreshAll ==
  /\ Mounted
  /\ operations = <<>>
  /\ operations' = operations \o RefreshAllOperations
  /\ state' = PostedAll(state, 5)
  /\ UNCHANGED <<now, outsideHook>>

\* clearMessageHistory()
ClearMessageHistory ==
  /\ Mounted
  /\ state' = updateState(state, ObjectUpdate([messageHistory |-> <<>>]))
  /\ UNCHANGED <<operations, now, outsideHook>>

\* disconnect()
Disconnect ==
  /\ Mounted
  /\ state' = updateState(state,
       ObjectUpdate([connected |-> FALSE, loading |-> FALSE, tools |-> <<>>,
                     prompts |-> <<>>, resources |-> <<>>, resourceTemplates |-> <<>>,
                     serverInfo |-> Null, messageHistory |-> <<>>, error |-> Null]))
  /\ UNCHANGED <<operations, now, outsideHook>>

\* result?.tools || [] and the like
ListOr(settlement) == IF settlement = "result" THEN Listed ELSE <<>>

\* the state after the operation's request has settled and the operation
\* has run to its end
Finished(prev, operation, settlement) ==
  CASE operation.name = "connect" ->
         IF settlement = "result"
         THEN PostedAll(updateState(prev, ObjectUpdate([connected |-> TRUE, loading |-> FALSE,
                                                        tools |-> Listed])), 5)
         ELSE setError(prev, ErrorMessage(settlement))
    [] operation.name \in DOMAIN LoadingMethod ->
         IF settlement = "result"
         THEN updateState(prev, ObjectUpdate([loading |-> FALSE]))
         ELSE setError(prev, ErrorMessage(settlement))
    [] operation.name = "getServerInfo" ->
         IF settlement = "result"
         THEN updateState(prev, ObjectUpdate([serverInfo |-> ServerInfo]))
         ELSE prev
    [] operation.name = "refreshTools" ->
         IF settlement = "result"
         THEN updateState(prev, ObjectUpdate([tools |-> Listed]))
         ELSE prev
    [] operation.name = "refreshPrompts" ->
         IF settlement = "result"
         THEN updateState(prev, ObjectUpdate([prompts |-> Listed]))
         ELSE prev
    [] OTHER -> prev

\* a request of an operation with one request settles, and the operation
\* runs to its end; connect() goes on into refreshAll()
SettleSingle ==
  \E i \in 1..Len(operations), settlement \in Settlements :
    /\ operations[i].name # "refreshResources"
    /\ state' = Finished(Settled(state, settlement), operations[i], settlement)
    /\ operations' =
         RemoveAt(operations, i)
         \o (IF operations[i].name = "connect" /\ settlement = "result"
             THEN RefreshAllOperations ELSE <<>>)
    /\ UNCHANGED <<now, outsideHook>>

\* what Promise.all keeps of a request of refreshResources: its result, or
\* the empty list its catch puts in place of a failure
Kept(settlement) == IF settlement = "result" THEN "result" ELSE "caught"

\* one of the two requests of refreshResources settles while the other
\* one is pending
SettleFirstOfTwo ==
  \E i \in 1..Len(operations), j \in 1..2, settlement \in Settlements :
    /\ operations[i].name = "refreshResources"
    /\ operations[i].requests[j].settled = "pending"
    /\ operations[i].requests[3 - j].settled = "pending"
    /\ state' = Settled(state, settlement)
    /\ operations' = [operations EXCEPT ![i].requests[j].settled = Kept(settlement)]
    /\ UNCHANGED <<now, outsideHook>>

\* the second of the two settles: a request that failed counts as an
\* empty list, and the hook takes both lists over
SettleSecondOfTwo ==
  \E i \in 1..Len(operations), j \in 1..2, settlement \in Settlements :
    /\ operations[i].name = "refreshResources"
    /\ operations[i].requests[j].settled = "pending"
    /\ operations[i].requests[3 - j].settled # "pending"
    /\ LET both == [operations[i].requests EXCEPT ![j].settled = Kept(settlement)]
       IN state' = updateState(Settled(state, settlement),
                     ObjectUpdate([resources |-> ListOr(both[1].settled),
                                   resourceTemplates |-> ListOr(both[2].settled)]))
    /\ operations' = RemoveAt(operations, i)
    /\ UNCHANGED <<now, outsideHook>>

HookNext ==
  \/ Tick
  \/ Connect
  \/ StartLoading
  \/ RefreshAll
  \/ ClearMessageHistory
  \/ Disconnect
  \/ SettleSingle
  \/ SettleFirstOfTwo
  \/ SettleSecondOfTwo

HookSpec == Init /\ [][HookNext]_vars


\* how many requests like this one the operations have pending
RECURSIVE PendingCount(_, _)
PendingCount(requests, request) ==
  IF requests = <<>> THEN 0
  ELSE (IF requests[1] = request THEN 1 ELSE 0) + PendingCount(Tail(requests), request)

\* the pending requests of the operations under way
PendingRequests(ops) ==
  {RequestsOf(ops)[k] : k \in {j \in 1..Len(RequestsOf(ops)) :
                                 RequestsOf(ops)[j].settled = "pending"}}

\* the requests this step posts, and the ones that settle in it
PostedNow ==
  {r \in PendingRequests(operations') :
     PendingCount(RequestsOf(operations'), r) > PendingCount(RequestsOf(operations), r)}
SettledNow ==
  {r \in PendingRequests(operations) :
     PendingCount(RequestsOf(operations'), r) < PendingCount(RequestsOf(operations), r)}

\* the entries of the history after the step that belong to this request
EntriesOf(r) ==
  {k \in 1..Len(state'.messageHistory) :
     /\ state'.messageHistory[k].id = r.id
     /\ state'.messageHistory[k].request.method = r.method}

\* C18: every request the hook posts is recorded in messageHistory: after
\* the step that posts it the history has an entry with that request,
\* after the step in which it settles the entry carries the response or
\* the error, and the history never holds more than 50 entries.
C18_RequestsRecorded ==
  [][/\ \A r \in PostedNow : EntriesOf(r) # {}
     /\ \A r \in SettledNow :
          \E k \in EntriesOf(r) :
            \/ state'.messageHistory[k].response # Null
            \/ state'.messageHistory[k].error # Null
     /\ Len(state'.messageHistory) <= 50]_vars


\* the truthiness rules as the documentation states them
TruthyByRule(value) ==
  CASE value.t \in {"undefined", "null"} -> FALSE
    [] value.t = "boolean" -> value = Bool(TRUE)
    [] value.t = "number" -> value # Num(0)
    [] value.t = "string" -> value # Str(<<>>)
    [] value.t = "array" -> value # Arr(<<>>)
    [] value.t = "object" -> DOMAIN value.props # {}
    [] OTHER -> TRUE

\* C21: the condition `v` is true exactly when the value of v is truthy
\* by the documented rules (undefined and null false, a boolean itself, a
\* number iff nonzero, a string iff nonempty, an array iff nonempty, an
\* object iff it has a key), and `!v` is the negation of that.
C21_BareVariable ==
  /\ Evaluated(<<"v">>) \/ Evaluated(<<" ", "v", " ">>) =>
       returnValue[1] = TruthyByRule(GetProp(arguments[2], <<"v">>))
  /\ Evaluated(<<"!", "v">>) =>
       returnValue[1] = ~TruthyByRule(GetProp(arguments[2], <<"v">>))

\* `v` has been evaluated with v the string "false" and was true, and with
\* v the empty array and was false
C21_FalseStringTruthy ==
  /\ Evaluated(<<"v">>)
  /\ GetProp(arguments[2], <<"v">>) = Str(<<"f", "a", "l", "s", "e">>)
  /\ returnValue[1]


NotEvaluated ==
  /\ errorList = <<>>
  /\ warningList = <<>>
  /\ ~Includes(processedContent.v, MissingMarker(<<"m">>))
  /\ ~Includes(processedContent.v, ErrorMarker(<<"m">>))


\* one of the modelled blocks is the template, in a branch that the
\* variables do not select
OnlyInUnselected ==
  \E pre \in Pres, post \in Posts :
    \/ ~Truthy(<<"a">>) /\ callTemplate \in {Str(UnselectedIf(pre, post)),
                                             Str(UnselectedIfBranch(pre, post)),
                                             Str(UnselectedOuter(pre, post))}
    \/ Truthy(<<"a">>) /\ callTemplate \in {Str(UnselectedElseBranch(pre, post)),
                                            Str(UnselectedUnless(pre, post))}
    \/ (Truthy(<<"a">>) \/ ~Truthy(<<"b">>))
         /\ callTemplate = Str(UnselectedElseIf(pre, post))

\* C23: directives are resolved before placeholders are substituted: a
\* placeholder that lies only in a branch that is not selected leaves no
\* error, no warning and no [MISSING: ..] or [ERROR: ..] marker, and a
\* value that is directive text is inserted as it is.
C23_DirectivesFirst ==
  Returned =>
    /\ callDeclarations = RequiredM /\ OnlyInUnselected => NotEvaluated
    /\ callTemplate = Str(InsertingBody) =>
         /\ processedContent.v
              = <<"P", " ">> \o GetProp(callVariables, <<"v">>).v \o <<" ", "Q">>
         /\ errorList = <<>>
         /\ warningList = <<>>


\* the template of the call is text without tags
PlainText == callTemplate.t = "string" /\ callTemplate.v \in BlankBodies

\* C24: the cleanup changes blank lines and trailing whitespace only: a
\* text of one line comes back without its trailing whitespace and with
\* its indentation, and runs of two or more blank lines come back as one
\* blank line.
C24_CleanupOnlyBlanks ==
  Returned /\ PlainText =>
    /\ ~Includes(callTemplate.v, <<"\n">>) =>
         processedContent.v = TrimEnd(callTemplate.v)
    /\ callTemplate.v = <<"A", "\n", "\n", "\n", "B", "\n", " ", "\n", "\n", "C">> =>
         processedContent.v = <<"A", "\n", "\n", "B", "\n", "\n", "C">>


\* the value of code in the call
Code == GetProp(arguments[2], <<"c", "o", "d", "e">>)

\* C25: in a helper call the right operand is coerced to a number or a
\* boolean only when the left value is not a string: `eq code "42"` is
\* true for code the string "42" and for code the number 42, `eq code
\* "true"` for the string "true" and for the boolean true, and `eq code
\* "ab"` for the string "ab" only.
C25_CoercedForNonString ==
  /\ Evaluated(EqCode42) => returnValue[1] = (Code \in {Str(<<"4", "2">>), Num(42)})
  /\ Evaluated(EqCodeTrue) => returnValue[1] = (Code \in {Str(<<"t", "r", "u", "e">>), Bool(TRUE)})
  /\ Evaluated(EqCodeAb) => returnValue[1] = (Code = Str(<<"a", "b">>))


(***************************************************************************)
(* The two template loaders.  A call of loadTemplates runs from its entry  *)
(* to its first await in one step, and from one await to the next in one   *)
(* step; what the file system and the API answer is chosen where the code  *)
(* reads it.  promptManager.registerTemplate is recorded by its argument.  *)
(***************************************************************************)
MaxLoads == 2   \* calls of loadTemplates and reloadTemplates
MaxFiles == 2   \* .prompty files in the directory, templates in an API answer

Loaders == {"TemplateLoader", "McpTemplateLoader"}

\* a template as it is passed to registerTemplate
Template(from, name) == [from |-> from, name |-> name]

\* the templates the two loaders have in their code
McpFallbackTemplates ==
  <<Template("fallback", "Helpful Assistant"), Template("fallback", "Creative Writer")>>
ApiFallbackTemplates == <<Template("fallback", "Helpful Assistant")>>
LegacyTemplates == <<Template("legacy", "Research Assistant")>>

\* what a call found: the kind of answer, and the entries of a listing
Found(kind, entries) == [kind |-> kind, entries |-> entries]
NothingYet == Found("nothing", <<>>)

\* listings of at most MaxFiles entries
Listings(kinds) == UNION {[1..k -> kinds] : k \in 0..MaxFiles}

\* what loadFromFileSystem can meet: no directory, a read that throws, or
\* .prompty files, each one parsed or rejected by parsePromptyFile
FileSystems ==
  {Found("missing", <<>>), Found("throws", <<>>)}
    \cup {Found("files", files) : files \in Listings({"usable", "broken"})}

\* what await response.json() can give: a rejection, a body without a
\* templates list, or a list of templates, an entry of which may be null
Bodies ==
  {Found("unreadable", <<>>), Found("malformed", <<>>)}
    \cup {Found("list", templates) : templates \in Listings({"template", "null"})}

\* a call of loadTemplates
Load(loader, at, found, registered) ==
  [loader |-> loader, pc |-> at, found |-> found, registered |-> registered,
   by |-> "loadTemplates"]

\* the files loop of loadFromFileSystem: a file that fails is skipped
RECURSIVE FilesRegistered(_, _)
FilesRegistered(files, j) ==
  IF j > Len(files) THEN <<>>
  ELSE (IF files[j] = "usable" THEN <<Template("file", ToString(j))>> ELSE <<>>)
         \o FilesRegistered(files, j + 1)

\* the loop over data.templates: for a null entry the conversion throws
\* and so does `apiTemplate.id` in the catch of the loop, which ends it
RECURSIVE ApiRegistered(_, _)
ApiRegistered(templates, j) ==
  IF j > Len(templates) \/ templates[j] = "null" THEN <<>>
  ELSE <<Template("api", ToString(j))>> \o ApiRegistered(templates, j + 1)

\* templatesLoaded after the inner try
templatesLoaded(found) ==
  /\ found.kind = "list"
  /\ \A j \in 1..Len(found.entries) : found.entries[j] = "template"

\* what the inner try has registered for this answer
TriedRegistered(found) ==
  IF found.kind = "list" THEN ApiRegistered(found.entries, 1) ELSE <<>>

\* TemplateLoader.loadTemplates from the end of its inner try to the
\* await of loadLegacyTemplates
AfterTry(found) ==
  TriedRegistered(found)
    \o (IF templatesLoaded(found) THEN <<>> ELSE ApiFallbackTemplates)
    \o LegacyTemplates

\* TemplateLoader.loadTemplates up to `await fetch`, or its return at the
\* guard
LoadTemplates ==
  /\ Len(loads) < MaxLoads
  /\ loads' = Append(loads,
       Load("TemplateLoader",
            IF loaded["TemplateLoader"] THEN "skipped" ELSE "fetch", NothingYet, <<>>))
  /\ UNCHANGED <<loaded, outsideLoaders>>

\* McpTemplateLoader.loadTemplates past its guard, up to its first await:
\* in the browser the fallback templates, otherwise loadFromFileSystem
McpStarted(found) ==
  CASE found.kind = "browser" ->
         Load("McpTemplateLoader", "fallback", found, McpFallbackTemplates)
    [] found.kind = "missing" ->
         Load("McpTemplateLoader", "missing", found, McpFallbackTemplates)
    [] found.kind = "throws" ->
         Load("McpTemplateLoader", "failed", found, <<>>)
    [] OTHER ->
         Load("McpTemplateLoader", "filesystem", found, FilesRegistered(found.entries, 1))

\* McpTemplateLoader.loadTemplates up to its first await, or its return at
\* the guard
McpLoadTemplates ==
  /\ Len(loads) < MaxLoads
  /\ \/ /\ loaded["McpTemplateLoader"]
        /\ loads' = Append(loads, Load("McpTemplateLoader", "skipped", NothingYet, <<>>))
     \/ /\ ~loaded["McpTemplateLoader"]
        /\ \E found \in FileSystems \cup {Found("browser", <<>>)} :
             loads' = Append(loads, McpStarted(found))
  /\ UNCHANGED <<loaded, outsideLoaders>>

\* reloadTemplates of either loader: the flag is reset and loadTemplates
\* is called
ReloadTemplates ==
  /\ Len(loads) < MaxLoads
  /\ \E loader \in Loaders :
       /\ loaded[loader]
       /\ loaded' = [loaded EXCEPT ![loader] = FALSE]
       /\ \E found \in FileSystems \cup {Found("browser", <<>>)} :
            loads' = Append(loads,
              [(IF loader = "TemplateLoader"
                THEN Load(loader, "fetch", NothingYet, <<>>)
                ELSE McpStarted(found)) EXCEPT !.by = "reloadTemplates"])
  /\ UNCHANGED outsideLoaders

\* fetch settles: rejected or not ok, and the call goes on to the await
\* of loadLegacyTemplates; ok, and it awaits response.json()
FetchSettles ==
  \E i \in 1..Len(loads) :
    /\ loads[i].pc = "fetch"
    /\ \/ \E kind \in {"rejected", "notOk"} :
            loads' = [loads EXCEPT ![i].pc = "legacy", ![i].found = Found(kind, <<>>),
                                   ![i].registered = AfterTry(Found(kind, <<>>))]
       \/ loads' = [loads EXCEPT ![i].pc = "json"]
    /\ UNCHANGED <<loaded, outsideLoaders>>

\* response.json() settles
JsonSettles ==
  \E i \in 1..Len(loads), body \in Bodies :
    /\ loads[i].pc = "json"
    /\ loads' = [loads EXCEPT ![i].pc = "legacy", ![i].found = body,
                              ![i].registered = AfterTry(body)]
    /\ UNCHANGED <<loaded, outsideLoaders>>

\* the await of loadLegacyTemplates is over: loaded = true
LegacyLoaded ==
  \E i \in 1..Len(loads) :
    /\ loads[i].pc = "legacy"
    /\ loads' = [loads EXCEPT ![i].pc = "done"]
    /\ loaded' = [loaded EXCEPT !["TemplateLoader"] = TRUE]
    /\ UNCHANGED outsideLoaders

\* the await of loadFallbackTemplates inside loadFromFileSystem is over
MissingHandled ==
  \E i \in 1..Len(loads) :
    /\ loads[i].pc = "missing"
    /\ loads' = [loads EXCEPT ![i].pc = "filesystem"]
    /\ UNCHANGED <<loaded, outsideLoaders>>

\* loadFromFileSystem has thrown: the catch of loadTemplates registers the
\* fallback templates
FailureCaught ==
  \E i \in 1..Len(loads) :
    /\ loads[i].pc = "failed"
    /\ loads' = [loads EXCEPT ![i].pc = "fallback",
                              ![i].registered = @ \o McpFallbackTemplates]
    /\ UNCHANGED <<loaded, outsideLoaders>>

\* the await in loadTemplates of McpTemplateLoader is over: loaded = true
McpLoaded ==
  \E i \in 1..Len(loads) :
    /\ loads[i].pc \in {"filesystem", "fallback"}
    /\ loads' = [loads EXCEPT ![i].pc = "done"]
    /\ loaded' = [loaded EXCEPT !["McpTemplateLoader"] = TRUE]
    /\ UNCHANGED outsideLoaders

LoadNext ==
  \/ LoadTemplates
  \/ McpLoadTemplates
  \/ ReloadTemplates
  \/ FetchSettles
  \/ JsonSettles
  \/ LegacyLoaded
  \/ MissingHandled
  \/ FailureCaught
  \/ McpLoaded

LoadSpec == Init /\ [][LoadNext]_vars


\* the calls of loadTemplates of this loader that complete in this step
CompletedNow(loader) ==
  {i \in 1..Len(loads) :
     /\ loads[i].loader = loader
     /\ loads[i].pc # "done"
     /\ loads'[i].pc = "done"}

\* C26: when a call of McpTemplateLoader.loadTemplates completes, the
\* loader is loaded and some template has been passed to
\* registerTemplate, whatever the file system held.
C26_SomeTemplateLoaded ==
  [][\A i \in CompletedNow("McpTemplateLoader") :
       /\ loaded'["McpTemplateLoader"]
       /\ \E k \in 1..Len(loads') : loads'[k].registered # <<>>]_vars


\* the templates of this list are among the ones the call registered
RegisteredBy(load, templates) ==
  \A j \in 1..Len(templates) :
    \E k \in 1..Len(load.registered) : load.registered[k] = templates[j]

\* the calls of TemplateLoader.loadTemplates that are past both steps
PastBothSteps ==
  {i \in 1..Len(loads) :
     loads[i].loader = "TemplateLoader" /\ loads[i].pc \in {"legacy", "done"}}

\* C27: in TemplateLoader.loadTemplates the fallback templates are
\* registered exactly when the fetch was rejected, the response was not
\* ok or its body could not be read, and never when the API answered ok;
\* the legacy templates are registered in both cases; and loaded is true
\* only when a call has finished both steps.
C27_FallbackWhenApiFailed ==
  /\ \A i \in PastBothSteps :
       /\ RegisteredBy(loads[i], ApiFallbackTemplates)
            <=> loads[i].found.kind \in {"rejected", "notOk", "unreadable"}
       /\ RegisteredBy(loads[i], LegacyTemplates)
  /\ loaded["TemplateLoader"] => \E i \in PastBothSteps : loads[i].pc = "done"


\* call k of loadTemplates follows call i on the same loader with no
\* reloadTemplates in between
SameCycle(i, k) ==
  /\ i < k
  /\ loads[i].loader = loads[k].loader
  /\ \A m \in (i + 1)..k :
       loads[m].loader = loads[i].loader => loads[m].by = "loadTemplates"

\* C29: a call of loadTemplates made while an earlier call on the same
\* loader is under way, or after it has completed, registers no template
\* as long as reloadTemplates has not been called.
C29_LoadedOncePerCycle ==
  \A i \in 1..Len(loads), k \in 1..Len(loads) :
    SameCycle(i, k) => loads[k].registered = <<>>


\* the operations under way that set the loading flag when they start
LoadingUnderWay(ops) == {i \in 1..Len(ops) : ops[i].name \in DOMAIN LoadingMethod}

\* this step starts one of them, or ends one
StartsLoading ==
  /\ Len(operations') = Len(operations) + 1
  /\ operations'[Len(operations')].name \in DOMAIN LoadingMethod
EndsLoading ==
  /\ Len(operations') = Len(operations) - 1
  /\ Cardinality(LoadingUnderWay(operations')) < Cardinality(LoadingUnderWay(operations))

\* C30: loading is true while a callTool, getPrompt, listResources or
\* readResource request is in flight, also when several overlap, and
\* false once nothing is under way; a request that fails leaves its
\* message in error, and a request that starts clears error.
C30_LoadingWhileInFlight ==
  [][/\ LoadingUnderWay(operations') # {} => state'.loading
     /\ operations' = <<>> => ~state'.loading
     /\ EndsLoading =>
          state'.error \in {state.error, ErrorMessage("error"), ErrorMessage("failed")}
     /\ StartsLoading => state'.error = Null]_vars



(***************************************************************************)
(* PromptEvaluator.runTestCase.  A score is written in hundredths: the     *)
(* quality metrics are 0.8, 0.6, 0.5 or 0.2 and the criteria count is a    *)
(* whole number, so the sum divided by 5 is a whole number of hundredths.  *)
(***************************************************************************)
MaxTerms == 2      \* terms in expected_outputs.contains
MaxCriteria == 2   \* entries of evaluation_criteria

UpperCase == <<"A", "B", "C", "D", "E", "F", "G", "H", "I", "J", "K", "L", "M", "N", "O", "P", "Q", "R", "S", "T", "U", "V", "W", "X", "Y", "Z">>
LowerCase == <<"a", "b", "c", "d", "e", "f", "g", "h", "i", "j", "k", "l", "m", "n", "o", "p", "q", "r", "s", "t", "u", "v", "w", "x", "y", "z">>

\* String.prototype.toLowerCase
toLowerCase(s) ==
  [j \in DOMAIN s |->
     IF \E k \in DOMAIN UpperCase : UpperCase[k] = s[j]
     THEN LowerCase[CHOOSE k \in DOMAIN UpperCase : UpperCase[k] = s[j]]
     ELSE s[j]]

\* phrases.some(phrase => text.includes(phrase))
SomeIncluded(text, phrases) == \E j \in DOMAIN phrases : Includes(text, phrases[j])

\* the number of the words that the text includes
IncludedCount(text, words) == Cardinality({j \in DOMAIN words : Includes(text, words[j])})

positiveWords == <<<<"g", "o", "o", "d">>, <<"g", "r", "e", "a", "t">>, <<"e", "x", "c", "e", "l", "l", "e", "n", "t">>, <<"a", "m", "a", "z", "i", "n", "g">>, <<"w", "o", "n", "d", "e", "r", "f", "u", "l">>, <<"f", "a", "n", "t", "a", "s", "t", "i", "c">>, <<"l", "o", "v", "e">>, <<"l", "i", "k", "e">>, <<"h", "a", "p", "p", "y">>>>
negativeWords == <<<<"b", "a", "d">>, <<"t", "e", "r", "r", "i", "b", "l", "e">>, <<"a", "w", "f", "u", "l">>, <<"h", "a", "t", "e">>, <<"d", "i", "s", "l", "i", "k", "e">>, <<"s", "a", "d">>, <<"a", "n", "g", "r", "y">>, <<"d", "i", "s", "a", "p", "p", "o", "i", "n", "t", "e", "d">>, <<"p", "r", "o", "b", "l", "e", "m">>>>

detectSentiment(text) ==
  LET lowerText == toLowerCase(text)
      positiveCount == IncludedCount(lowerText, positiveWords)
      negativeCount == IncludedCount(lowerText, negativeWords)
  IN IF positiveCount > negativeCount THEN "positive"
     ELSE IF negativeCount > positiveCount THEN "negative"
     ELSE "neutral"

\* String.prototype.split on a pattern that matches a run of the given
\* characters, as /[.!?]+/ and /\s+/ do
RECURSIVE SplitRuns(_, _, _)
SplitRuns(s, separators, piece) ==
  IF s = <<>> THEN <<piece>>
  ELSE IF Head(s) \in separators
  THEN IF Len(s) > 1 /\ s[2] \in separators
       THEN SplitRuns(Tail(s), separators, piece)
       ELSE <<piece>> \o SplitRuns(Tail(s), separators, <<>>)
  ELSE SplitRuns(Tail(s), separators, Append(piece, Head(s)))

\* the four quality metrics, in hundredths
calculateQualityMetrics(response) ==
  LET sentences == SelectSeq(SplitRuns(response, {".", "!", "?"}, <<>>),
                             LAMBDA s : Len(Trim(s)) > 0)
  IN [relevance |-> IF Len(response) > 0 /\ Trim(response) # <<>> THEN 80 ELSE 20,
      coherence |-> IF /\ Len(sentences) > 0
                       /\ \A j \in DOMAIN sentences : Len(Trim(sentences[j])) > 5
                    THEN 80 ELSE 50,
      completeness |-> IF Len(response) > 20 /\ ~EndsWith(response, <<".", ".", ".">>)
                       THEN 80 ELSE 60,
      accuracy |-> IF /\ Len(response) > 10
                      /\ ~Includes(response, <<"e", "r", "r", "o", "r">>)
                      /\ ~Includes(response, <<"s", "o", "r", "r", "y">>)
                   THEN 80 ELSE 60]

directAnswerPhrases == <<<<"t", "h", "e", " ", "a", "n", "s", "w", "e", "r", " ", "i", "s">>, <<"s", "i", "m", "p", "l", "y", " ", "p", "u", "t">>, <<"i", "n", " ", "s", "h", "o", "r", "t">>, <<"t", "o", " ", "s", "u", "m", "m", "a", "r", "i", "z", "e">>>>
engagementPhrases == <<<<"w", "h", "a", "t", " ", "d", "o", " ", "y", "o", "u", " ", "t", "h", "i", "n", "k">>, <<"c", "o", "n", "s", "i", "d", "e", "r">>, <<"r", "e", "f", "l", "e", "c", "t">>, <<"e", "x", "p", "l", "o", "r", "e">>, <<"i", "n", "v", "e", "s", "t", "i", "g", "a", "t", "e">>>>
criticalPhrases == <<<<"a", "n", "a", "l", "y", "z", "e">>, <<"e", "x", "a", "m", "i", "n", "e">>, <<"e", "v", "a", "l", "u", "a", "t", "e">>, <<"c", "o", "m", "p", "a", "r", "e">>, <<"c", "o", "n", "t", "r", "a", "s", "t">>, <<"e", "v", "i", "d", "e", "n", "c", "e">>>>
structurePhrases == <<<<"f", "i", "r", "s", "t">>, <<"s", "e", "c", "o", "n", "d">>, <<"n", "e", "x", "t">>, <<"t", "h", "e", "n">>, <<"f", "i", "n", "a", "l", "l", "y">>, <<"s", "t", "e", "p">>>>
informalPhrases == <<<<"h", "e", "y">>, <<"g", "o", "n", "n", "a">>, <<"w", "a", "n", "n", "a">>, <<"y", "e", "a", "h">>, <<"n", "a", "h">>, <<"c", "o", "o", "l">>, <<"a", "w", "e", "s", "o", "m", "e">>>>
creativePhrases == <<<<"i", "m", "a", "g", "i", "n", "e">>, <<"c", "r", "e", "a", "t", "i", "v", "e">>, <<"i", "n", "n", "o", "v", "a", "t", "i", "v", "e">>, <<"u", "n", "i", "q", "u", "e">>, <<"o", "r", "i", "g", "i", "n", "a", "l">>, <<"a", "r", "t", "i", "s", "t", "i", "c">>>>
evidencePhrases == <<<<"r", "e", "s", "e", "a", "r", "c", "h">>, <<"s", "t", "u", "d", "y">>, <<"d", "a", "t", "a">>, <<"e", "v", "i", "d", "e", "n", "c", "e">>, <<"s", "o", "u", "r", "c", "e">>, <<"a", "c", "c", "o", "r", "d", "i", "n", "g", " ", "t", "o">>>>

evaluateQualitativeCriterion(criterion, response) ==
  LET lowerResponse == toLowerCase(response)
      lowerCriterion == toLowerCase(criterion)
      Has(word) == Includes(lowerCriterion, word)
      criterionWords == SelectSeq(SplitRuns(lowerCriterion, WhiteSpace, <<>>),
                                  LAMBDA word : Len(word) > 3)
  IN IF Has(<<"q", "u", "e", "s", "t", "i", "o", "n">>) \/ Has(<<"a", "s", "k", "i", "n", "g">>)
     THEN Includes(response, <<"?">>)
     ELSE IF Has(<<"a", "v", "o", "i", "d">>) /\ Has(<<"d", "i", "r", "e", "c", "t">>)
     THEN ~SomeIncluded(lowerResponse, directAnswerPhrases)
     ELSE IF Has(<<"e", "n", "g", "a", "g">>) \/ Has(<<"i", "n", "t", "e", "r", "a", "c", "t">>)
     THEN SomeIncluded(lowerResponse, engagementPhrases)
     ELSE IF Has(<<"c", "r", "i", "t", "i", "c", "a", "l">>) \/ Has(<<"a", "n", "a", "l", "y", "s", "i", "s">>)
     THEN SomeIncluded(lowerResponse, criticalPhrases)
     ELSE IF Has(<<"s", "t", "r", "u", "c", "t", "u", "r", "e">>) \/ Has(<<"g", "u", "i", "d", "e">>)
     THEN SomeIncluded(lowerResponse, structurePhrases)
     ELSE IF Has(<<"p", "r", "o", "f", "e", "s", "s", "i", "o", "n", "a", "l">>) \/ Has(<<"f", "o", "r", "m", "a", "l">>)
     THEN ~SomeIncluded(lowerResponse, informalPhrases) /\ Len(response) > 20
     ELSE IF Has(<<"c", "r", "e", "a", "t", "i", "v", "e">>) \/ Has(<<"i", "m", "a", "g", "i", "n", "a", "t", "i", "v", "e">>)
     THEN SomeIncluded(lowerResponse, creativePhrases)
     ELSE IF Has(<<"e", "v", "i", "d", "e", "n", "c", "e">>) \/ Has(<<"r", "e", "s", "e", "a", "r", "c", "h">>)
     THEN SomeIncluded(lowerResponse, evidencePhrases)
     ELSE IF Has(<<"d", "e", "t", "a", "i", "l", "e", "d">>) \/ Has(<<"c", "o", "m", "p", "r", "e", "h", "e", "n", "s", "i", "v", "e">>)
     THEN Len(response) > 200
     ELSE IF Has(<<"c", "o", "n", "c", "i", "s", "e">>) \/ Has(<<"b", "r", "i", "e", "f">>)
     THEN Len(response) < 150 /\ Len(response) > 20
     ELSE SomeIncluded(lowerResponse, criterionWords) \/ Len(response) > 50

\* the response used when no executor is given
MockResponse == <<"M", "o", "c", "k", " ", "r", "e", "s", "p", "o", "n", "s", "e", " ", "f", "o", "r", " ", "e", "v", "a", "l", "u", "a", "t", "i", "o", "n", " ", "t", "e", "s", "t", "i", "n", "g">>

\* the checks of the test case on the response, in the order the code
\* makes them: TRUE for a check that is met
CriteriaChecks(testCase, response) ==
  LET expected == testCase.expected_outputs
  IN [j \in DOMAIN expected.contains |->
        Includes(toLowerCase(response), toLowerCase(expected.contains[j]))]
     \o (IF expected.min_length # 0
         THEN <<Len(response) >= expected.min_length>> ELSE <<>>)
     \o (IF expected.max_length # 0
         THEN <<Len(response) <= expected.max_length>> ELSE <<>>)
     \o (IF expected.sentiment # ""
         THEN <<detectSentiment(response) = expected.sentiment>> ELSE <<>>)
     \o [j \in DOMAIN testCase.evaluation_criteria |->
           evaluateQualitativeCriterion(testCase.evaluation_criteria[j], response)]

\* runTestCase: processed is what promptManager.processTemplate returned
\* for the inputs of the test case, execution is what the executor did
\* (kind "none" when no executor was given)
runTestCase(testCase, processed, execution) ==
  LET errors == IF processed.missing_variables # <<>>
                THEN <<<<"Missing variables", processed.missing_variables>>>>
                ELSE <<>>
      warnings == processed.security_violations
      response == IF execution.kind = "none" THEN MockResponse ELSE execution.response
      checks == CriteriaChecks(testCase, response)
      criteriaScore == Cardinality({j \in DOMAIN checks : checks[j]})
      qualityMetrics == calculateQualityMetrics(response)
      score == (criteriaScore * 100 + qualityMetrics.relevance + qualityMetrics.coherence
                + qualityMetrics.completeness + qualityMetrics.accuracy) \div 5
  IN IF execution.kind = "rejects"
     THEN [passed |-> FALSE, score |-> 0, response |-> <<>>, meets_criteria |-> <<>>,
           quality_metrics |-> [relevance |-> 0, coherence |-> 0,
                                completeness |-> 0, accuracy |-> 0],
           errors |-> Append(errors, <<"Execution failed", <<>>>>),
           warnings |-> warnings]
     ELSE [passed |-> score >= 70 /\ errors = <<>>, score |-> score,
           response |-> response, meets_criteria |-> checks,
           quality_metrics |-> qualityMetrics,
           errors |-> errors, warnings |-> warnings]

\* the sequences of at most n members of a set
ListsUpTo(S, n) == UNION {[1..k -> S] : k \in 0..n}

Terms == {<<"m", "o", "c", "k">>, <<"z", "e", "b", "r", "a">>}
Criteria == {<<"A", "s", "k", "s", " ", "a", " ", "q", "u", "e", "s", "t", "i", "o", "n">>, <<"A", "c", "c", "u", "r", "a", "t", "e", " ", "a", "n", "s", "w", "e", "r">>}
TestCases ==
  [expected_outputs : [contains : ListsUpTo(Terms, MaxTerms),
                       min_length : {0, 10, 100},
                       max_length : {0, 1000},
                       sentiment : {"", "neutral"}],
   evaluation_criteria : ListsUpTo(Criteria, MaxCriteria)]
Processed ==
  [missing_variables : {<<>>, <<"topic">>}, security_violations : {<<>>}]
Executions ==
  {[kind |-> "none", response |-> <<>>], [kind |-> "rejects", response |-> <<>>]}
  \cup [kind : {"resolves"},
        response : {<<>>,
                    <<"S", "o", "r", "r", "y", ",", " ", "a", "n", " ", "e", "r", "r", "o", "r", " ", "o", "c", "c", "u", "r", "r", "e", "d", ".", ".", ".">>,
                    <<"W", "h", "a", "t", " ", "d", "o", " ", "y", "o", "u", " ", "t", "h", "i", "n", "k", "?", " ", "C", "o", "n", "s", "i", "d", "e", "r", " ", "t", "h", "e", " ", "e", "v", "i", "d", "e", "n", "c", "e", " ", "f", "i", "r", "s", "t", ".", " ", "O", "k", ".">>}]

\* runTestCase has been called
EvaluateInit ==
  /\ EngineIdle
  /\ calledFunction = "runTestCase"
  /\ arguments \in TestCases \X Processed \X Executions
  /\ returnValue = <<>>
  /\ returned = <<>>
  /\ HookUnmounted

\* runTestCase resolves with its EvaluationResult
RunTestCase ==
  /\ calledFunction = "runTestCase"
  /\ returnValue = <<>>
  /\ returnValue' = <<runTestCase(arguments[1], arguments[2], arguments[3])>>
  /\ UNCHANGED <<outsideFunction, calledFunction, arguments>>

EvaluateNext == RunTestCase

EvaluateSpec == EvaluateInit /\ [][EvaluateNext]_vars

\* runTestCase has produced a result
TestCaseRun == calledFunction = "runTestCase" /\ returnValue # <<>>

\* C28: the score of every result of runTestCase lies between 0 and 1
\* (0 and 100 hundredths), however many expected-output checks and
\* evaluation criteria the test case has, and a result is passed only if
\* its score is at least 0.7 and its errors list is empty.
C28_ScoreInRange ==
  TestCaseRun =>
    /\ returnValue[1].score \in 0..100
    /\ returnValue[1].passed =>
         returnValue[1].score >= 70 /\ returnValue[1].errors = <<>>

====
